---- MODULE Spec2Model ----
(***************************************************************************)
(* A model of tools/generate-wire.py: the schema object model (Field,      *)
(* Message), the type inference of --bolt mode, and the behaviour of the   *)
(* C code the generator emits (towire_ and fromwire_ functions and the TLV *)
(* container encode and decode).                                           *)
(*                                                                         *)
(* Python strings are TLA+ strings; Len, SubSeq and \o act on them as on   *)
(* sequences of characters.  Python's None is the string NoneStr, which no *)
(* token of a comma-separated record can equal.                            *)
(***************************************************************************)
EXTENDS Integers, Sequences, FiniteSets, TLC

(***************************************************************************)
(* Python string primitives used by the generator.                         *)
(***************************************************************************)
NoneStr == ","

\* The value standing for a raised ValueError / TypeError.
ErrStr == ",error"

startswith(s, p) == Len(s) >= Len(p) /\ SubSeq(s, 1, Len(p)) = p

endswith(s, p) == Len(s) >= Len(p) /\ SubSeq(s, Len(s) - Len(p) + 1, Len(s)) = p

\* Python's `k in s` on strings.
contains(k, s) == \E i \in 1..(Len(s) - Len(k) + 1) : SubSeq(s, i, i + Len(k) - 1) = k

CharAt(s, i) == SubSeq(s, i, i)

Digits == {"0", "1", "2", "3", "4", "5", "6", "7", "8", "9"}

DigitVal(c) ==
    CASE c = "0" -> 0 [] c = "1" -> 1 [] c = "2" -> 2 [] c = "3" -> 3
      [] c = "4" -> 4 [] c = "5" -> 5 [] c = "6" -> 6 [] c = "7" -> 7
      [] c = "8" -> 8 [] c = "9" -> 9

\* Whether int(s) returns (decimal digits only; signs and blanks do not occur
\* in the records modelled here).
IsInt(s) == Len(s) > 0 /\ \A i \in 1..Len(s) : CharAt(s, i) \in Digits

RECURSIVE int(_)
int(s) ==
    IF Len(s) = 0 THEN 0
    ELSE 10 * int(SubSeq(s, 1, Len(s) - 1)) + DigitVal(CharAt(s, Len(s)))

\* Positions of '*' in s, and s.split('*')[0], s.split('*')[1].
StarAt(s) == {i \in 1..Len(s) : CharAt(s, i) = "*"}

Min(S) == CHOOSE x \in S : \A y \in S : x <= y

Max(S) == CHOOSE x \in S : \A y \in S : x >= y

split0(s) == SubSeq(s, 1, Min(StarAt(s)) - 1)

split1(s) ==
    LET first == Min(StarAt(s))
        later == {i \in StarAt(s) : i > first}
        stop  == IF later = {} THEN Len(s) ELSE Min(later) - 1
    IN  SubSeq(s, first + 1, stop)

(***************************************************************************)
(* TypeCatalog: the static tables.                                         *)
(***************************************************************************)
type2size ==
    [t \in {"pad", "struct channel_id", "struct short_channel_id", "struct ipv6",
            "secp256k1_ecdsa_signature", "struct preimage", "struct pubkey",
            "struct sha256", "struct bitcoin_blkid", "struct bitcoin_txid",
            "struct secret", "struct amount_msat", "struct amount_sat",
            "u64", "u32", "u16", "u8", "bool"} |->
        CASE t = "pad" -> 1
          [] t = "struct channel_id" -> 32
          [] t = "struct short_channel_id" -> 8
          [] t = "struct ipv6" -> 16
          [] t = "secp256k1_ecdsa_signature" -> 64
          [] t = "struct preimage" -> 32
          [] t = "struct pubkey" -> 33
          [] t = "struct sha256" -> 32
          [] t = "struct bitcoin_blkid" -> 32
          [] t = "struct bitcoin_txid" -> 32
          [] t = "struct secret" -> 32
          [] t = "struct amount_msat" -> 8
          [] t = "struct amount_sat" -> 8
          [] t = "u64" -> 8
          [] t = "u32" -> 4
          [] t = "u16" -> 2
          [] t = "u8" -> 1
          [] t = "bool" -> 1]

varlen_structs ==
    {"peer_features", "gossip_getnodes_entry", "failed_htlc", "utxo",
     "bitcoin_tx", "wirestring"}

\* Full (message, fieldname) mappings, as <<message, fieldname, type>>.
typemap ==
    {<<"update_fail_htlc", "reason", "u8">>,
     <<"node_announcement", "alias", "u8">>,
     <<"update_add_htlc", "onion_routing_packet", "u8">>,
     <<"update_fulfill_htlc", "payment_preimage", "struct preimage">>,
     <<"error", "data", "u8">>,
     <<"shutdown", "scriptpubkey", "u8">>,
     <<"node_announcement", "rgb_color", "u8">>,
     <<"node_announcement", "addresses", "u8">>,
     <<"node_announcement", "ipv6", "struct ipv6">>,
     <<"announcement_signatures", "short_channel_id", "struct short_channel_id">>,
     <<"channel_announcement", "short_channel_id", "struct short_channel_id">>,
     <<"channel_update", "short_channel_id", "struct short_channel_id">>,
     <<"revoke_and_ack", "per_commitment_secret", "struct secret">>,
     <<"channel_reestablish_option_data_loss_protect",
       "your_last_per_commitment_secret", "struct secret">>,
     <<"channel_update", "fee_base_msat", "u32">>,
     <<"final_incorrect_htlc_amount", "incoming_htlc_amt", "struct amount_msat">>}

\* Partial names that map to a datatype, in the dict's insertion order.
partialtypemap ==
    << <<"signature", "secp256k1_ecdsa_signature">>,
       <<"features", "u8">>,
       <<"channel_id", "struct channel_id">>,
       <<"chain_hash", "struct bitcoin_blkid">>,
       <<"funding_txid", "struct bitcoin_txid">>,
       <<"pad", "pad">>,
       <<"msat", "struct amount_msat">>,
       <<"satoshis", "struct amount_sat">> >>

\* Size to typename match.
sizetypemap ==
    [n \in {33, 32, 8, 4, 2, 1} |->
        CASE n = 33 -> "struct pubkey"
          [] n = 32 -> "struct sha256"
          [] n = 8 -> "u64"
          [] n = 4 -> "u32"
          [] n = 2 -> "u16"
          [] n = 1 -> "u8"]

(***************************************************************************)
(* FieldType.                                                              *)
(***************************************************************************)
FieldType_is_assignable(name) ==
    \/ name \in {"u8", "u16", "u32", "u64", "bool",
                 "struct amount_msat", "struct amount_sat"}
    \/ startswith(name, "enum ")

FieldType_has_array_helper(name) == name \in {"u8"}

base(name) ==
    IF startswith(name, "struct ") THEN SubSeq(name, 8, Len(name))
    ELSE IF startswith(name, "enum ") THEN SubSeq(name, 6, Len(name))
    ELSE name

\* Returns the base size; -1 stands for the ValueError of an unknown typename.
typesize(typename) ==
    IF typename \in DOMAIN type2size THEN type2size[typename]
    ELSE IF startswith(typename, "struct ") \/ startswith(typename, "enum ") THEN 0
    ELSE -1

(***************************************************************************)
(* Field._guess_type: the three lookup tiers of --bolt mode.               *)
(***************************************************************************)
TypemapHit(message, fieldname) == {e \in typemap : e[1] = message /\ e[2] = fieldname}

PartialHits(fieldname) ==
    {i \in 1..Len(partialtypemap) : contains(partialtypemap[i][1], fieldname)}

\* _guess_type with the partial names looked up before the full matches.
guess_type_partial_first(message, fieldname, base_size) ==
    IF PartialHits(fieldname) # {}
    THEN partialtypemap[Min(PartialHits(fieldname))][2]
    ELSE IF TypemapHit(message, fieldname) # {}
    THEN (CHOOSE e \in TypemapHit(message, fieldname) : TRUE)[3]
    ELSE IF base_size \in DOMAIN sizetypemap THEN sizetypemap[base_size]
    ELSE ErrStr

\* Field._guess_type; ErrStr stands for its ValueError.
guess_type(message, fieldname, base_size) ==
    IF TypemapHit(message, fieldname) # {}
    THEN (CHOOSE e \in TypemapHit(message, fieldname) : TRUE)[3]
    ELSE IF PartialHits(fieldname) # {}
    THEN partialtypemap[Min(PartialHits(fieldname))][2]
    ELSE IF base_size \in DOMAIN sizetypemap THEN sizetypemap[base_size]
    ELSE ErrStr

(***************************************************************************)
(* Field.  A field is a record; lenvar = NoneStr is Python's None, and     *)
(* lenvar_for is the position, in its message's field list, of the field   *)
(* this one is the length of (0 while the attribute is unset).  err is     *)
(* TRUE when the constructor raised.                                       *)
(***************************************************************************)
FieldRec(message, name, lenvar, num_elems, optional, is_tlv, fieldtype, err) ==
    [message |-> message, name |-> name, is_len_var |-> FALSE, lenvar |-> lenvar,
     lenvar_for |-> 0, num_elems |-> num_elems, optional |-> optional,
     is_tlv |-> is_tlv, fieldtype |-> fieldtype, err |-> err]

\* The name the field keeps: a trailing '+' (a TLV field) is dropped.
FieldName(name) == IF endswith(name, "+") THEN SubSeq(name, 1, Len(name) - 1) ELSE name

\* The size token as Field.__init__ reads it: whether it is optional ('?'),
\* the length variable, the literal count, the type or byte count that is
\* left, and bad when int(number) raises.
SizeRec(optional, lenvar, count, size, bad) ==
    [optional |-> optional, lenvar |-> lenvar, count |-> count, size |-> size, bad |-> bad]

\* An arraysize whose count, when not a number, is taken for a length field
\* whatever the previous field was.
ArraySize_any_name(number, rest, prevname) ==
    IF number = prevname \/ ~IsInt(number) THEN SizeRec(FALSE, number, 1, rest, FALSE)
    ELSE SizeRec(FALSE, NoneStr, int(number), rest, FALSE)

ArraySize(number, rest, prevname) ==
    IF number = prevname THEN SizeRec(FALSE, number, 1, rest, FALSE)
    ELSE IF IsInt(number) THEN SizeRec(FALSE, NoneStr, int(number), rest, FALSE)
    ELSE SizeRec(FALSE, NoneStr, 1, rest, TRUE)

ParseSize(bolt, size, prevname) ==
    IF startswith(size, "?")
    THEN SizeRec(TRUE, NoneStr, 1, SubSeq(size, 2, Len(size)), FALSE)
    ELSE IF StarAt(size) # {} THEN ArraySize(split0(size), split1(size), prevname)
    ELSE IF bolt /\ size = prevname THEN SizeRec(FALSE, size, 1, "1", FALSE)
    ELSE SizeRec(FALSE, NoneStr, 1, size, FALSE)

\* --bolt without the test that the type's size divides the byte count.
BoltField_any_size(message, fname, is_tlv, p, base_size, ft, tsize) ==
    IF ft = ErrStr \/ tsize <= 0
    THEN FieldRec(message, fname, p.lenvar, p.count, p.optional, is_tlv, ErrStr, TRUE)
    ELSE FieldRec(message, fname, p.lenvar, base_size \div tsize, p.optional, is_tlv,
                  ft, FALSE)

\* --bolt: the element count from the byte count and the guessed type's size.
BoltField(message, fname, is_tlv, p, base_size, ft, tsize) ==
    IF ft = ErrStr \/ tsize <= 0
    THEN FieldRec(message, fname, p.lenvar, p.count, p.optional, is_tlv, ErrStr, TRUE)
    ELSE IF base_size % tsize # 0
    THEN FieldRec(message, fname, p.lenvar, p.count, p.optional, is_tlv, ErrStr, TRUE)
    ELSE FieldRec(message, fname, p.lenvar, base_size \div tsize, p.optional, is_tlv,
                  ft, FALSE)

BoltGuess(message, fname, is_tlv, p, base_size, ft) ==
    BoltField(message, fname, is_tlv, p, base_size, ft,
              IF ft = ErrStr THEN -1 ELSE typesize(ft))

TypedField(bolt, message, fname, is_tlv, p) ==
    IF p.bad \/ (bolt /\ ~IsInt(p.size))
    THEN FieldRec(message, fname, p.lenvar, p.count, p.optional, is_tlv, ErrStr, TRUE)
    ELSE IF bolt
    THEN BoltGuess(message, fname, is_tlv, p, int(p.size),
                   guess_type(message, fname, int(p.size)))
    ELSE FieldRec(message, fname, p.lenvar, p.count, p.optional, is_tlv, p.size, FALSE)

\* Field.__init__ after the TLV file (if any) is loaded.
Field(bolt, message, name, size, prevname) ==
    TypedField(bolt, message, FieldName(name), endswith(name, "+"),
               ParseSize(bolt, size, prevname))

is_padding(f) == startswith(f.name, "pad")

\* Padding is always treated as an array.
is_array(f) == f.num_elems > 1 \/ is_padding(f)

is_variable_size(f) == f.lenvar # NoneStr

needs_ptr_to_ptr(f) == is_variable_size(f) \/ f.optional

is_assignable(f) ==
    IF is_array(f) \/ needs_ptr_to_ptr(f) THEN FALSE
    ELSE FieldType_is_assignable(f.fieldtype)

has_array_helper(f) == FieldType_has_array_helper(f.fieldtype)

(***************************************************************************)
(* Message.                                                                *)
(***************************************************************************)
Message(name, enumname, enumvalue, is_tlv) ==
    [name |-> name, enum |-> [name |-> enumname, value |-> enumvalue],
     fields |-> << >>, has_variable_fields |-> FALSE, is_tlv |-> is_tlv, err |-> FALSE]

\* Position of the first field of the message called name, 0 if there is none.
FindField(m, name) ==
    LET hits == {i \in 1..Len(m.fields) : m.fields[i].name = name}
    IN  IF hits = {} THEN 0 ELSE Min(hits)

\* checkLenField without its test of the length field's shape.
MarkLenField_any_shape(bolt, m, i) ==
    IF i = 0 THEN [m EXCEPT !.err = TRUE]
    ELSE IF m.fields[i].fieldtype # "u16" /\ bolt THEN [m EXCEPT !.err = TRUE]
    ELSE [m EXCEPT !.fields[i].is_len_var = TRUE,
                   !.fields[i].lenvar_for = Len(m.fields) + 1]

\* checkLenField: marks the length field, or raises (err).
MarkLenField(bolt, m, i) ==
    IF i = 0 THEN [m EXCEPT !.err = TRUE]
    ELSE IF m.fields[i].fieldtype # "u16" /\ bolt THEN [m EXCEPT !.err = TRUE]
    ELSE IF is_array(m.fields[i]) \/ needs_ptr_to_ptr(m.fields[i])
    THEN [m EXCEPT !.err = TRUE]
    ELSE [m EXCEPT !.fields[i].is_len_var = TRUE,
                   !.fields[i].lenvar_for = Len(m.fields) + 1]

checkLenField(bolt, m, field) ==
    IF field.optional THEN m ELSE MarkLenField(bolt, m, FindField(m, field.lenvar))

AppendVariable(c, field) ==
    IF c.err THEN c
    ELSE [c EXCEPT !.has_variable_fields = TRUE, !.fields = Append(c.fields, field)]

\* addField that sets the flag for length-prefixed fields alone.
addField_lenvar_only(bolt, m, field) ==
    IF is_variable_size(field) THEN AppendVariable(checkLenField(bolt, m, field), field)
    ELSE [m EXCEPT !.fields = Append(m.fields, field)]

addField(bolt, m, field) ==
    IF is_variable_size(field) THEN AppendVariable(checkLenField(bolt, m, field), field)
    ELSE IF base(field.fieldtype) \in varlen_structs \/ field.optional
    THEN [m EXCEPT !.has_variable_fields = TRUE, !.fields = Append(m.fields, field)]
    ELSE [m EXCEPT !.fields = Append(m.fields, field)]

\* find_message: position of the first message called name, 0 for None.
find_message(messages, name) ==
    LET hits == {i \in 1..Len(messages) : messages[i].name = name}
    IN  IF hits = {} THEN 0 ELSE Min(hits)

RECURSIVE replace_dash(_)
replace_dash(s) ==
    IF Len(s) = 0 THEN s
    ELSE (IF CharAt(s, 1) = "-" THEN "_" ELSE CharAt(s, 1))
         \o replace_dash(SubSeq(s, 2, Len(s)))

RECURSIVE upper(_)
upper(s) ==
    LET lo == "abcdefghijklmnopqrstuvwxyz"
        up == "ABCDEFGHIJKLMNOPQRSTUVWXYZ"
        c  == CharAt(s, 1)
        at == {i \in 1..26 : CharAt(lo, i) = c}
    IN  IF Len(s) = 0 THEN s
        ELSE (IF at = {} THEN c ELSE CharAt(up, Min(at))) \o upper(SubSeq(s, 2, Len(s)))

(***************************************************************************)
(* The included TLV files (wire/gen_<name>_csv), as the records the line   *)
(* splitter hands over: <<name, value>> starts a message, a record of four *)
(* or five parts adds a field.  NoFile stands for a file that is missing.  *)
(***************************************************************************)
NoFile == << <<NoneStr>> >>

TlvFile(name) ==
    CASE name = "ext" ->
            << <<"r1", "1">>, <<"r1", "0", "a", "u64">>,
               <<"r2", "2">>, <<"r2", "0", "b", "u32">> >>
      [] name = "var" ->
            << <<"v", "1">>, <<"v", "0", "len", "u16">>, <<"v", "2", "data", "len*u8">> >>
      [] name = "tpad" ->
            << <<"q", "1">>, <<"q", "0", "pad", "2*u8">>, <<"q", "2", "c", "u16">> >>
      [] name = "mixed" ->
            << <<"w", "3">>, <<"w", "0", "big", "u64">>, <<"w", "8", "small", "u8">> >>
      [] name = "nested" ->
            << <<"n", "1">>, <<"n", "0", "len", "u16">>, <<"n", "2", "ext+", "len*u8">> >>
      [] name = "extb" ->
            << <<"r1", "1">>, <<"r1", "0", "a", "8">>,
               <<"r2", "2">>, <<"r2", "0", "b", "4">> >>
      [] name = "topt" ->
            << <<"t", "1">>, <<"t", "0", "o", "?u8">> >>
      [] name = "loop" ->
            << <<"l", "1">>, <<"l", "0", "len", "u16">>, <<"l", "2", "loop+", "len*u8">> >>
      [] name = "dup" ->
            << <<"p", "1">>, <<"p", "0", "a", "u8">>, <<"q", "1">> >>
      [] OTHER -> NoFile

\* The deepest chain of nested TLV files followed before the load is given up
\* (Python's recursion limit, scaled down).
MaxDepth == 3

(***************************************************************************)
(* The builder's global state g: messages, messages_with_option,           *)
(* tlv_fields (container name -> its messages), prevfield, the sequence of *)
(* files loaded so far, and err (an exception ended the run).              *)
(***************************************************************************)
EmptyFun == [x \in {} |-> x]

InitBuilder ==
    [messages |-> << >>, messages_with_option |-> << >>, tlv_fields |-> EmptyFun,
     prevfield |-> NoneStr, loads |-> << >>, err |-> FALSE]

\* find_message_with_option: <<optional_messages', position of m, raised>>.
WithOption(messages, optional_messages, fullname, b, o) ==
    IF b = 0 THEN <<optional_messages, 0, TRUE>>
    ELSE IF o # 0 THEN <<optional_messages, o, FALSE>>
    ELSE <<Append(optional_messages, [messages[b] EXCEPT !.name = fullname]),
           Len(optional_messages) + 1, FALSE>>

find_message_with_option(messages, optional_messages, name, option) ==
    WithOption(messages, optional_messages, name \o "_" \o replace_dash(option),
               find_message(messages, name),
               find_message(optional_messages, name \o "_" \o replace_dash(option)))

\* The message a field record names: <<messages_with_option', position,
\* raised>>, the position in messages for a record of four parts and in
\* messages_with_option for one of five.
FindTarget(messages, optional_messages, parts) ==
    IF Len(parts) = 5
    THEN find_message_with_option(messages, optional_messages, parts[1], parts[5])
    ELSE <<optional_messages, find_message(messages, parts[1]),
           find_message(messages, parts[1]) = 0>>

\* prevfield after field f of record parts: kept when f used it as lenvar.
NextPrev(f, parts, prevfield) ==
    IF f.lenvar = NoneStr \/ f.lenvar = "" THEN parts[3] ELSE prevfield

RECURSIVE parse_tlv_lines(_, _, _, _, _, _, _)
RECURSIVE parse_tlv_file(_, _, _, _)

\* tlv_fields[self.name] = tlv_messages
StoreTlv(r, fname) ==
    IF r.g.err THEN r.g
    ELSE [r.g EXCEPT !.tlv_fields = (fname :> r.tlv_messages) @@ r.g.tlv_fields]

\* The part of Field.__init__ that loads a TLV file: g after the load.
LoadTlv(bolt, g, name, depth) ==
    IF ~endswith(name, "+") \/ FieldName(name) \in DOMAIN g.tlv_fields THEN g
    ELSE StoreTlv(parse_tlv_file(bolt, g, FieldName(name), depth + 1), FieldName(name))

\* m.addField(f) and the step to the next record, in parse_tlv_file.
TlvAdded(bolt, g, lines, i, tlv_messages, tlv_prevfield, depth, k, f, m2) ==
    IF g.err \/ f.err \/ m2.err
    THEN [g |-> [g EXCEPT !.err = TRUE], tlv_messages |-> tlv_messages]
    ELSE IF Len(lines[i]) = 4
    THEN parse_tlv_lines(bolt, g, lines, i + 1, [tlv_messages EXCEPT ![k] = m2],
                         NextPrev(f, lines[i], tlv_prevfield), depth)
    ELSE parse_tlv_lines(bolt, [g EXCEPT !.messages_with_option[k] = m2], lines, i + 1,
                         tlv_messages, NextPrev(f, lines[i], tlv_prevfield), depth)

TlvField(bolt, g, lines, i, tlv_messages, tlv_prevfield, depth, k, m, f) ==
    TlvAdded(bolt, g, lines, i, tlv_messages, tlv_prevfield, depth, k, f,
             addField(bolt, m, f))

\* f = Field(m.name, parts[2], parts[3], tlv_comments, tlv_prevfield), g being
\* the state after the constructor loaded a TLV file.
TlvLoaded(bolt, g, lines, i, tlv_messages, tlv_prevfield, depth, k, m) ==
    TlvField(bolt, g, lines, i, tlv_messages, tlv_prevfield, depth, k, m,
             Field(bolt, m.name, lines[i][3], lines[i][4], tlv_prevfield))

TlvTarget(bolt, g, lines, i, tlv_messages, tlv_prevfield, depth, k) ==
    TlvLoaded(bolt, g, lines, i, tlv_messages, tlv_prevfield, depth, k,
              IF Len(lines[i]) = 4 THEN tlv_messages[k] ELSE g.messages_with_option[k])

TlvFound(bolt, g, lines, i, tlv_messages, tlv_prevfield, depth, opt) ==
    IF opt[3] THEN [g |-> [g EXCEPT !.err = TRUE], tlv_messages |-> tlv_messages]
    ELSE TlvTarget(bolt,
                   LoadTlv(bolt, [g EXCEPT !.messages_with_option = opt[1]],
                           lines[i][3], depth),
                   lines, i, tlv_messages, tlv_prevfield, depth, opt[2])

\* The body of parse_tlv_file's loop from record i on.
parse_tlv_lines(bolt, g, lines, i, tlv_messages, tlv_prevfield, depth) ==
    IF g.err \/ i > Len(lines) THEN [g |-> g, tlv_messages |-> tlv_messages]
    ELSE IF Len(lines[i]) = 2
    THEN parse_tlv_lines(bolt, g, lines, i + 1,
             Append(tlv_messages,
                    Message(lines[i][1], "TLV_" \o upper(lines[i][1]), lines[i][2], TRUE)),
             NoneStr, depth)
    ELSE IF Len(lines[i]) \notin {4, 5}
    THEN [g |-> [g EXCEPT !.err = TRUE], tlv_messages |-> tlv_messages]
    ELSE TlvFound(bolt, g, lines, i, tlv_messages, tlv_prevfield, depth,
                  FindTarget(tlv_messages, g.messages_with_option, lines[i]))

parse_tlv_file(bolt, g, tlv_field_name, depth) ==
    IF TlvFile(tlv_field_name) = NoFile \/ depth > MaxDepth
    THEN [g |-> [g EXCEPT !.err = TRUE], tlv_messages |-> << >>]
    ELSE parse_tlv_lines(bolt, [g EXCEPT !.loads = Append(g.loads, tlv_field_name)],
                         TlvFile(tlv_field_name), 1, << >>, NoneStr, depth)

\* m.addField(f) and prevfield, in the main loop.
MainAdded(g, parts, prevfield, k, f, m2) ==
    IF g.err \/ f.err \/ m2.err THEN [g EXCEPT !.err = TRUE]
    ELSE IF Len(parts) = 4
    THEN [g EXCEPT !.messages[k] = m2, !.prevfield = NextPrev(f, parts, prevfield)]
    ELSE [g EXCEPT !.messages_with_option[k] = m2,
                   !.prevfield = NextPrev(f, parts, prevfield)]

MainField(bolt, g, parts, prevfield, k, m, f) ==
    MainAdded(g, parts, prevfield, k, f, addField(bolt, m, f))

\* f = Field(m.name, parts[2], parts[3], comments, prevfield), g being the
\* state after the constructor loaded a TLV file.
MainLoaded(bolt, g, parts, prevfield, k, m) ==
    MainField(bolt, g, parts, prevfield, k, m,
              Field(bolt, m.name, parts[3], parts[4], prevfield))

MainTarget(bolt, g, parts, prevfield, k) ==
    MainLoaded(bolt, g, parts, prevfield, k,
               IF Len(parts) = 4 THEN g.messages[k] ELSE g.messages_with_option[k])

MainFound(bolt, g, parts, opt) ==
    IF opt[3] THEN [g EXCEPT !.err = TRUE]
    ELSE MainTarget(bolt,
                    LoadTlv(bolt, [g EXCEPT !.messages_with_option = opt[1]], parts[3], 0),
                    parts, g.prevfield, opt[2])

\* One pass of the main loop over a record of the top-level file.
ReadRecord(bolt, g, parts) ==
    IF Len(parts) = 2
    THEN [g EXCEPT !.messages = Append(g.messages,
                       Message(parts[1], "WIRE_" \o upper(parts[1]), parts[2], FALSE)),
                   !.prevfield = NoneStr]
    ELSE IF Len(parts) \notin {4, 5} THEN [g EXCEPT !.err = TRUE]
    ELSE MainFound(bolt, g, parts, FindTarget(g.messages, g.messages_with_option, parts))

\* The main loop over a whole file.
RECURSIVE ReadFile(_, _, _, _)
ReadFile(bolt, g, lines, i) ==
    IF g.err \/ i > Len(lines) THEN g
    ELSE ReadFile(bolt, ReadRecord(bolt, g, lines[i]), lines, i + 1)

(***************************************************************************)
(* Run-time values.  A byte is a number in 0..255 and a buffer a sequence  *)
(* of bytes.  A value of type u8, u16 or bool is a number, converted to    *)
(* and from its big-endian bytes; a value of any other type is kept as its *)
(* wire image, a sequence of as many bytes as the type is wide.            *)
(* NullVal(t) is a NULL pointer to a t (an absent optional value) and      *)
(* Unset(t) a caller variable the decode has not written; neither is a     *)
(* value of the type.  A TLV record in the caller's struct is              *)
(* [present, fields]: whether the pointer is set, and the members.         *)
(***************************************************************************)
Zeros(n) == [i \in 1..n |-> 0]

IntKind(t) == t \in {"u8", "u16", "bool"}

NullVal(t) == IF IntKind(t) THEN -2 ELSE <<-2>>

Unset(t) == IF IntKind(t) THEN -1 ELSE <<-1>>

RECURSIVE Pow256(_)
Pow256(w) == IF w = 0 THEN 1 ELSE 256 * Pow256(w - 1)

\* The w big-endian bytes of v (the value is cut to the width, as C does).
RECURSIVE BE(_, _)
BE(v, w) == IF w = 0 THEN << >> ELSE Append(BE(v \div 256, w - 1), v % 256)

RECURSIVE FromBE(_)
FromBE(bytes) ==
    IF Len(bytes) = 0 THEN 0
    ELSE 256 * FromBE(SubSeq(bytes, 1, Len(bytes) - 1)) + bytes[Len(bytes)]

\* towire_<type>(&p, v): the bytes appended.
towire_type(t, v) == IF IntKind(t) THEN BE(v, typesize(t)) ELSE v

\* The value a failed read leaves (fromwire returns 0 or zeroes the copy).
ZeroVal(t) == IF IntKind(t) THEN 0 ELSE Zeros(typesize(t))

\* A value read from memory the caller does not own (filled with byte b).
JunkVal(t, b) == IF IntKind(t) THEN FromBE([i \in 1..typesize(t) |-> b])
                 ELSE [i \in 1..typesize(t) |-> b]

(***************************************************************************)
(* Whether the generation passes raise for a message (TypeError).          *)
(***************************************************************************)
GenRaises(m) ==
    \E i \in 1..Len(m.fields) :
        LET f == m.fields[i]
        IN  IF m.is_tlv THEN f.is_tlv \/ f.optional
            ELSE ~is_padding(f) /\ ~is_array(f) /\ f.is_tlv /\ ~is_variable_size(f)

(***************************************************************************)
(* The allocation context of the generated decodes: whether the function   *)
(* printed for a message declares 'const tal_t *ctx', and the context      *)
(* expressions the steps printed for a field hand to tal_arr, tal, the     *)
(* decode of an externally-allocated struct or the container decode.       *)
(***************************************************************************)
\* A declaration that follows the length-prefixed fields alone.
ctx_arg_variable_only(m) == \E i \in 1..Len(m.fields) : is_variable_size(m.fields[i])

\* ctx_arg = 'const tal_t *ctx, ' if self.has_variable_fields else ''
ctx_arg(m) == m.has_variable_fields

\* case_tmpl: ctx_arg = 'ctx, ' if m.has_variable_fields else ''
case_ctx_arg(m) == m.has_variable_fields

\* print_fromwire_array(ctx, ...): the context the element decode is handed.
fromwire_array_ctx(ctx, f) ==
    IF has_array_helper(f) THEN {}
    ELSE IF FieldType_is_assignable(f.fieldtype) THEN {}
    ELSE IF base(f.fieldtype) \in varlen_structs THEN {ctx}
    ELSE {}

\* print_fromwire: the contexts of the subcalls of field f.
fromwire_ctx(f) ==
    IF is_padding(f) THEN {}
    ELSE IF is_array(f) THEN fromwire_array_ctx("ctx", f)
    ELSE IF f.is_tlv THEN (IF is_variable_size(f) THEN {"ctx"} ELSE {})
    ELSE IF is_variable_size(f) THEN {"ctx"} \cup fromwire_array_ctx("*" \o f.name, f)
    ELSE (IF (IF f.optional THEN FieldType_is_assignable(f.fieldtype)
              ELSE is_assignable(f)) THEN {}
          ELSE IF base(f.fieldtype) \in varlen_structs THEN {"ctx"}
          ELSE {})
         \cup (IF f.optional THEN {"ctx"} ELSE {})

\* print_tlv_fromwire: the contexts of the subcalls of field f; nothing is
\* printed for a nested TLV or an optional field (TypeError).
tlv_fromwire_ctx(f) ==
    IF f.is_tlv \/ f.optional THEN {}
    ELSE IF is_padding(f) THEN {}
    ELSE IF is_array(f) THEN fromwire_array_ctx("ctx", f)
    ELSE IF is_variable_size(f) THEN {"ctx"} \cup fromwire_array_ctx("*" \o f.name, f)
    ELSE {}

\* The contexts used in the body of the decode printed for message m.
print_fromwire_ctx(m) ==
    UNION {IF m.is_tlv THEN tlv_fromwire_ctx(m.fields[i]) ELSE fromwire_ctx(m.fields[i]) :
              i \in 1..Len(m.fields)}

(***************************************************************************)
(* The generated encode.  e is the call's environment: x the caller's      *)
(* values by field name, lens the locals of field_decls by name, ptrsize   *)
(* the width of a pointer in the build, fill the byte found in memory      *)
(* beyond an array, tlvs the containers, ub the outcomes of the undefined  *)
(* tal_count calls of TLV records.                                         *)
(***************************************************************************)
\* n elements of the caller's array vs; beyond its end the read is out of bounds.
RECURSIVE towire_array(_, _, _, _, _)
towire_array(t, vs, n, fill, i) ==
    IF i > n THEN << >>
    ELSE towire_type(t, IF i <= Len(vs) THEN vs[i] ELSE JunkVal(t, fill))
         \o towire_array(t, vs, n, fill, i + 1)

LenVarNames(m) == {m.fields[i].name : i \in {j \in 1..Len(m.fields) : m.fields[j].is_len_var}}

\* The declaration of the length local called name (the last one declared wins
\* nothing: C rejects a second declaration, so names are taken to be distinct).
LenDeclOf(m, name) ==
    CHOOSE i \in 1..Len(m.fields) : m.fields[i].is_len_var /\ m.fields[i].name = name

\* sizeof a C integer type.
c_sizeof(t) ==
    CASE t = "u8" -> 1 [] t = "bool" -> 1 [] t = "u16" -> 2 [] t = "u32" -> 4 [] t = "u64" -> 8

\* The members of struct _tlv_msg_<name>, as <<size, alignment>> (print_struct).
RECURSIVE struct_members(_, _, _)
struct_members(m, ptrsize, i) ==
    IF i > Len(m.fields) THEN << >>
    ELSE LET f    == m.fields[i]
             algn == IF c_sizeof(f.fieldtype) < ptrsize THEN c_sizeof(f.fieldtype)
                     ELSE ptrsize
             mem  == IF f.is_len_var \/ is_padding(f) THEN << >>
                     ELSE IF is_variable_size(f) THEN << <<ptrsize, ptrsize>> >>
                     ELSE IF is_array(f)
                     THEN << <<f.num_elems * c_sizeof(f.fieldtype), algn>> >>
                     ELSE << <<c_sizeof(f.fieldtype), algn>> >>
         IN  mem \o struct_members(m, ptrsize, i + 1)

RoundUp(n, a) == ((n + a - 1) \div a) * a

RECURSIVE struct_end(_, _)
struct_end(mems, i) ==
    IF i = 0 THEN 0
    ELSE RoundUp(struct_end(mems, i - 1), mems[i][2]) + mems[i][1]

\* sizeof(struct _tlv_msg_<name>) under the build's natural alignment.
sizeof_struct(m, ptrsize) ==
    LET mems == struct_members(m, ptrsize, 1)
    IN  IF mems = << >> THEN 0
        ELSE RoundUp(struct_end(mems, Len(mems)),
                     Max({mems[i][2] : i \in 1..Len(mems)}))

\* print_tlv_towire: the bytes _towire_<tlv>_<name> appends for record value v.
\* ub maps each length local to the outcome of tal_count(&rec->field).
RECURSIVE tlv_towire_fields(_, _, _, _, _)
tlv_towire_fields(m, v, ub, fill, i) ==
    IF i > Len(m.fields) THEN << >>
    ELSE LET f == m.fields[i]
             t == f.fieldtype
             b == IF is_padding(f) THEN Zeros(f.num_elems)
                  ELSE IF is_array(f) THEN towire_array(t, v[f.name], f.num_elems, fill, 1)
                  ELSE IF is_variable_size(f)
                  THEN towire_array(t, v[f.name], ub[f.lenvar], fill, 1)
                  ELSE IF f.is_len_var THEN towire_type(t, ub[f.name])
                  ELSE towire_type(t, v[f.name])
         IN  b \o tlv_towire_fields(m, v, ub, fill, i + 1)

\* tlv__type_impl_towire_fields: what towire__<tlv_name> emits for record m,
\* as [present, tag, len, bytes]: the tag and the 16-bit length written, and
\* the bytes _towire_<tlv>_<name> appends after them.
tlv_entry(m, tv, ub, ptrsize, fill) ==
    [present |-> tv[m.name].present,
     tag     |-> int(m.enum.value) % 65536,
     len     |-> sizeof_struct(m, ptrsize) % 65536,
     bytes   |-> IF tv[m.name].present
                 THEN tlv_towire_fields(m, tv[m.name].fields, ub[m.name], fill, 1)
                 ELSE << >>]

\* The entries of a container, one for each record in the container's order.
tlv_entries(messages, tv, ub, ptrsize, fill) ==
    [i \in 1..Len(messages) |-> tlv_entry(messages[i], tv, ub, ptrsize, fill)]

\* The bytes of the entries i.. : nothing for a record that is absent.
RECURSIVE entries_bytes(_, _)
entries_bytes(es, i) ==
    IF i > Len(es) THEN << >>
    ELSE (IF es[i].present THEN BE(es[i].tag, 2) \o BE(es[i].len, 2) \o es[i].bytes
          ELSE << >>) \o entries_bytes(es, i + 1)

\* print_tlv_towire (module level): the bytes towire__<tlv_name> appends.
towire_tlv(messages, tv, ub, ptrsize, fill) ==
    entries_bytes(tlv_entries(messages, tv, ub, ptrsize, fill), 1)

\* print_towire field_decls: the value of each length local.
towire_field_decls(m, e) ==
    [name \in LenVarNames(m) |->
        LET f   == m.fields[LenDeclOf(m, name)]
            tgt == m.fields[f.lenvar_for]
            w   == typesize(f.fieldtype)
        IN  IF tgt.is_tlv THEN e.ptrsize % Pow256(w)
            ELSE Len(e.x[tgt.name]) % Pow256(w)]

\* print_towire subcalls: the bytes field f appends.
towire_field(m, f, e) ==
    LET t == f.fieldtype
    IN  IF is_padding(f) THEN Zeros(f.num_elems)
        ELSE IF is_array(f) THEN towire_array(t, e.x[f.name], f.num_elems, e.fill, 1)
        ELSE IF f.is_tlv
        THEN towire_tlv(e.tlvs[f.name], e.x[f.name], e.ub[f.name], e.ptrsize, e.fill)
        ELSE IF is_variable_size(f)
        THEN towire_array(t, e.x[f.name], towire_field_decls(m, e)[f.lenvar], e.fill, 1)
        ELSE IF f.optional
        THEN (IF e.x[f.name] = NullVal(t) THEN <<0>> ELSE <<1>> \o towire_type(t, e.x[f.name]))
        ELSE IF f.is_len_var THEN towire_type(t, towire_field_decls(m, e)[f.name])
        ELSE towire_type(t, e.x[f.name])

RECURSIVE towire_fields(_, _, _)
towire_fields(m, e, i) ==
    IF i > Len(m.fields) THEN << >>
    ELSE towire_field(m, m.fields[i], e) \o towire_fields(m, e, i + 1)

\* towire_impl_templ: the discriminant, then the fields.
towire(m, e) == BE(int(m.enum.value), 2) \o towire_fields(m, e, 1)

(***************************************************************************)
(* The read primitives of the wire library.  A cursor is an offset into    *)
(* the buffer, or NULLP once a read failed; d = [cursor, plen, maxread] is *)
(* the pair the generated code threads through every read, with maxread    *)
(* the number of leading buffer bytes some read has touched.               *)
(***************************************************************************)
NULLP == -1

\* fromwire(&cursor, &plen, copy, n): a read of n bytes.
fromwire(d, n) ==
    IF d.plen < n THEN [cursor |-> NULLP, plen |-> 0, maxread |-> d.maxread]
    ELSE IF d.cursor = NULLP \/ n = 0 THEN d
    ELSE [cursor |-> d.cursor + n, plen |-> d.plen - n,
          maxread |-> IF d.cursor + n > d.maxread THEN d.cursor + n ELSE d.maxread]

\* The n bytes at offset c; memory beyond the buffer holds the byte fill.
MemRead(buf, fill, c, n) ==
    [i \in 1..n |-> IF c + i <= Len(buf) THEN buf[c + i] ELSE fill]

\* fromwire_<type>: the value read at d, a zero value when the read fails.
fromwire_type(t, buf, fill, d) ==
    IF d.plen < typesize(t) THEN ZeroVal(t)
    ELSE IF IntKind(t) THEN FromBE(MemRead(buf, fill, d.cursor, typesize(t)))
    ELSE MemRead(buf, fill, d.cursor, typesize(t))

\* fromwire_u16 as used for discriminants, tags and lengths.
fromwire_u16(buf, fill, d) == fromwire_type("u16", buf, fill, d)

(***************************************************************************)
(* The generated decode of one field.  st = [d, locals, out]: the cursor   *)
(* pair, the length locals by name, the caller's outputs by field name.    *)
(***************************************************************************)
\* The loop of print_fromwire_array: n reads of one element each.
RECURSIVE fromwire_loop(_, _, _, _, _, _)
fromwire_loop(t, buf, fill, d, n, i) ==
    IF i > n THEN [d |-> d, vs |-> << >>]
    ELSE LET v == fromwire_type(t, buf, fill, d)
             r == fromwire_loop(t, buf, fill, fromwire(d, typesize(t)), n, i + 1)
         IN  [d |-> r.d, vs |-> <<v>> \o r.vs]

\* print_fromwire_array: fromwire_u8_array is one read of n bytes, any other
\* type is read element by element.
print_fromwire_array(f, buf, fill, d, n) ==
    IF has_array_helper(f)
    THEN [d  |-> fromwire(d, n),
          vs |-> IF d.plen < n THEN Zeros(n) ELSE MemRead(buf, fill, d.cursor, n)]
    ELSE fromwire_loop(f.fieldtype, buf, fill, d, n, 1)

\* One subcall of print_fromwire / print_tlv_fromwire, a TLV field excepted.
fromwire_field(f, buf, fill, st) ==
    LET t == f.fieldtype
        d == st.d
    IN  IF is_padding(f) THEN [st EXCEPT !.d = fromwire(d, f.num_elems)]
        ELSE IF is_array(f)
        THEN LET r == print_fromwire_array(f, buf, fill, d, f.num_elems)
             IN  [st EXCEPT !.d = r.d, !.out[f.name] = r.vs]
        ELSE IF is_variable_size(f)
        THEN LET r == print_fromwire_array(f, buf, fill, d, st.locals[f.lenvar])
             IN  [st EXCEPT !.d = r.d, !.out[f.name] = r.vs]
        ELSE IF f.optional
        THEN LET flag == fromwire_type("bool", buf, fill, d)
                 d1   == fromwire(d, 1)
             IN  IF flag = 0 THEN [st EXCEPT !.d = d1, !.out[f.name] = NullVal(t)]
                 ELSE [st EXCEPT !.d = fromwire(d1, typesize(t)),
                                 !.out[f.name] = fromwire_type(t, buf, fill, d1)]
        ELSE IF f.is_len_var
        THEN [st EXCEPT !.d = fromwire(d, typesize(t)),
                        !.locals[f.name] = fromwire_type(t, buf, fill, d)]
        ELSE [st EXCEPT !.d = fromwire(d, typesize(t)),
                        !.out[f.name] = fromwire_type(t, buf, fill, d)]

RECURSIVE fromwire_fields(_, _, _, _, _)
fromwire_fields(m, buf, fill, st, i) ==
    IF i > Len(m.fields) THEN st
    ELSE fromwire_fields(m, buf, fill, fromwire_field(m.fields[i], buf, fill, st), i + 1)

\* The caller-visible fields of a message, and its outputs before a decode.
VisibleNames(m) ==
    {m.fields[i].name : i \in {j \in 1..Len(m.fields) :
                                  ~m.fields[j].is_len_var /\ ~is_padding(m.fields[j])}}

\* A record decode that returns cursor != NULL alone.
record_ok_any_length(cursor, start_len, plen, len) == cursor # NULLP

\* return cursor != NULL && (start_len - plen == len);
record_ok(cursor, start_len, plen, len) == cursor # NULLP /\ start_len - plen = len

\* fromwire_tlv_impl_templ: _fromwire_<tlv>_<name>(cursor, len, rec).  count is
\* what tal_count(p) returns; rec the record's struct before the call.
fromwire_tlv_record(m, buf, fill, cur, maxread, len, count, rec) ==
    LET plen0 == count
        st0   == [d |-> [cursor |-> cur, plen |-> plen0, maxread |-> maxread],
                  locals |-> [n \in LenVarNames(m) |-> 0], out |-> rec]
        st    == fromwire_fields(m, buf, fill, st0, 1)
    IN  IF plen0 < len
        THEN [ok |-> FALSE, rec |-> rec, maxread |-> maxread, ran |-> FALSE,
              consumed |-> 0, exhausted |-> FALSE]
        ELSE [ok |-> record_ok(st.d.cursor, plen0, st.d.plen, len),
              rec |-> st.out, maxread |-> st.d.maxread, ran |-> TRUE,
              consumed |-> plen0 - st.d.plen, exhausted |-> st.d.cursor = NULLP]

(***************************************************************************)
(* Bounds of the model and the inputs drawn within them.                   *)
(***************************************************************************)
\* The longest caller array of a length-prefixed field.
MaxElems == 2

\* The largest count an undefined tal_count call is taken to return.
MaxTal == 8

\* The most entries of a hand-made TLV span.
MaxEntries == 3

\* The widths of a pointer in the builds considered (ILP32 and LP64).
PtrSizes == {4, 8}

\* The bytes that may lie in memory beyond a buffer or an array.
FillBytes == {0, 1}

TalCounts == 0..MaxTal

\* The outcomes of an undefined tal_count call: any count up to MaxTal, and
\* the count that really lies at its argument.
TalOutcomes(actual) == TalCounts \cup {actual}

\* The top-level schema files the codec is exercised on: <<bolt, records>>.
Corpus ==
    << <<TRUE, << <<"ping", "18">>, <<"ping", "0", "num_pong_bytes", "2">>,
                  <<"ping", "2", "byte_len", "2">>,
                  <<"ping", "4", "ignored", "byte_len">> >> >>,
       <<FALSE, << <<"fixed", "3">>, <<"fixed", "0", "a", "u8">>,
                   <<"fixed", "1", "pad", "2*u8">>, <<"fixed", "3", "arr", "2*u16">>,
                   <<"fixed", "7", "scid", "struct short_channel_id">> >> >>,
       <<FALSE, << <<"opt", "0">>, <<"opt", "0", "o", "?u16">>,
                   <<"opt", "3", "t", "u8">>,
                   <<"opt", "4", "extra", "u32", "opt-a">> >> >>,
       <<FALSE, << <<"shared", "5">>, <<"shared", "0", "len", "u16">>,
                   <<"shared", "2", "a", "len*u8">>,
                   <<"shared", "2", "b", "len*u16">> >> >>,
       <<FALSE, << <<"tmsg", "7">>, <<"tmsg", "0", "len", "u16">>,
                   <<"tmsg", "2", "ext+", "len*u8">> >> >>,
       <<FALSE, << <<"vmsg", "8">>, <<"vmsg", "0", "len", "u16">>,
                   <<"vmsg", "2", "var+", "len*u8">> >> >>,
       <<FALSE, << <<"pmsg", "9">>, <<"pmsg", "0", "len", "u16">>,
                   <<"pmsg", "2", "tpad+", "len*u8">> >> >>,
       <<FALSE, << <<"xmsg", "10">>, <<"xmsg", "0", "len", "u16">>,
                   <<"xmsg", "2", "mixed+", "len*u8">>, <<"xmsg", "2", "t", "u8">> >> >> >>

Built(c) == ReadFile(Corpus[c][1], InitBuilder, Corpus[c][2], 1)

\* The values of one element of a type.
ElemVals(t) ==
    IF t = "u8" THEN {0, 7}
    ELSE IF t = "u16" THEN {0, 258}
    ELSE IF t = "bool" THEN {0, 1}
    ELSE {Zeros(typesize(t)), [i \in 1..typesize(t) |-> i]}

\* A field, and the members of a record, that nothing has written.
UnsetField(f) ==
    IF is_array(f) \/ is_variable_size(f) THEN <<Unset(f.fieldtype)>>
    ELSE Unset(f.fieldtype)

UnsetRec(m) == [n \in VisibleNames(m) |-> UnsetField(m.fields[FindField(m, n)])]

RECURSIVE MsgVals(_, _, _)
RECURSIVE TlvVals(_, _)

\* The values a caller may hold for field f.
FieldVals(f, tlvs) ==
    IF is_array(f) THEN [1..f.num_elems -> ElemVals(f.fieldtype)]
    ELSE IF f.is_tlv THEN TlvVals(tlvs[f.name], 1)
    ELSE IF is_variable_size(f)
    THEN UNION {[1..k -> ElemVals(f.fieldtype)] : k \in 0..MaxElems}
    ELSE IF f.optional THEN {NullVal(f.fieldtype)} \cup ElemVals(f.fieldtype)
    ELSE ElemVals(f.fieldtype)

\* The assignments of values to the caller-visible fields i.. of m.
MsgVals(m, tlvs, i) ==
    IF i > Len(m.fields) THEN {EmptyFun}
    ELSE LET f == m.fields[i]
         IN  IF f.is_len_var \/ is_padding(f) THEN MsgVals(m, tlvs, i + 1)
             ELSE {(f.name :> v) @@ r : v \in FieldVals(f, tlvs),
                                        r \in MsgVals(m, tlvs, i + 1)}

\* The values of struct _<tlv_name>: each record absent or present.
TlvVals(messages, i) ==
    IF i > Len(messages) THEN {EmptyFun}
    ELSE {(messages[i].name :> v) @@ r :
              v \in {[present |-> FALSE, fields |-> UnsetRec(messages[i])]}
                    \cup {[present |-> TRUE, fields |-> w] :
                             w \in MsgVals(messages[i], EmptyFun, 1)},
              r \in TlvVals(messages, i + 1)}

\* Fields that share a length field hold arrays of one length.
LegalVal(m, v) ==
    \A i, j \in 1..Len(m.fields) :
        (/\ is_variable_size(m.fields[i]) /\ ~m.fields[i].is_tlv
         /\ is_variable_size(m.fields[j]) /\ ~m.fields[j].is_tlv
         /\ m.fields[i].lenvar = m.fields[j].lenvar)
        => Len(v[m.fields[i].name]) = Len(v[m.fields[j].name])

Values(m, tlvs) == {v \in MsgVals(m, tlvs, 1) : LegalVal(m, v)}

\* The caller's outputs before a decode: nothing written; the structs of a
\* TLV field allocated by the caller, their members not written.
OutInit(m, tlvs) ==
    [n \in VisibleNames(m) |->
        LET f == m.fields[FindField(m, n)]
        IN  IF f.is_tlv /\ ~is_array(f)
            THEN [r \in {tlvs[n][i].name : i \in 1..Len(tlvs[n])} |->
                     [present |-> FALSE,
                      fields |-> UnsetRec(tlvs[n][find_message(tlvs[n], r)])]]
            ELSE UnsetField(f)]

(***************************************************************************)
(* State.                                                                  *)
(*   msg, tlvs     the message whose generated code runs, the containers   *)
(*   ptrsize, fill the build's pointer width, the byte beyond any buffer   *)
(*   x             the caller's values handed to towire_<name>             *)
(*   enc, lens     the buffer towire_<name> returned, its length locals    *)
(*   spans         the entries each container encode emitted               *)
(*   buf, variant  the buffer handed to fromwire_<name> and how it was     *)
(*                 made                                                    *)
(*   pc, fi        the position of the run; the next field of the decode   *)
(*   d, locals, out, steps, result                                         *)
(*                 the decode's cursor pair, length locals, the caller's   *)
(*                 outputs, the field subcalls run, the value returned     *)
(*   tlv           the frame of a running fromwire__<tlv_name>             *)
(*   ubok          every undefined tal_count so far returned the count of  *)
(*                 bytes (or elements) that really lay at its argument     *)
(*   guess         the inputs and the result of Field._guess_type          *)
(*   build         a run of the generator: its records read so far, the    *)
(*                 builder's globals, the artifact flavor generated         *)
(***************************************************************************)
VARIABLES msg, tlvs, ptrsize, fill, x, enc, lens, spans, buf, variant, pc, fi, d,
          locals, out, steps, result, tlv, ubok, guess, build

vars == <<msg, tlvs, ptrsize, fill, x, enc, lens, spans, buf, variant, pc, fi, d,
          locals, out, steps, result, tlv, ubok, guess, build>>

scenario == <<msg, tlvs, ptrsize, fill, x>>

encoded == <<enc, lens, spans>>

NoTlv == [name |-> NoneStr, cursor |-> NULLP, plen |-> 0, len |-> 0, log |-> << >>,
          result |-> FALSE, caller |-> NoneStr]

NoGuess == [message |-> NoneStr, fieldname |-> NoneStr, base_size |-> 0,
            type |-> NoneStr, first |-> NoneStr, runs |-> 0]

NoD == [cursor |-> NULLP, plen |-> 0, maxread |-> 0]

\* No run of the generator is going on.
NoBuild == [pc |-> "none", bolt |-> FALSE, vocab |-> 0, g |-> InitBuilder, n |-> 0,
            parts |-> << >>, named |-> {}, header |-> FALSE, printwire |-> FALSE]

\* The top-level entry points generated: messages + messages_with_option.
TopLevel(g) == g.messages \o g.messages_with_option

Init ==
    /\ \E c \in 1..Len(Corpus) :
          /\ ~Built(c).err
          /\ tlvs = Built(c).tlv_fields
          /\ \E i \in 1..Len(TopLevel(Built(c))) :
                /\ msg = TopLevel(Built(c))[i]
                /\ ~GenRaises(msg)
                /\ x \in Values(msg, tlvs)
    /\ ptrsize \in PtrSizes
    /\ fill \in FillBytes
    /\ enc = << >> /\ lens = EmptyFun /\ spans = EmptyFun
    /\ buf = << >> /\ variant = [kind |-> "none", k |-> 0]
    /\ pc = "ready" /\ fi = 0 /\ d = NoD /\ locals = EmptyFun /\ out = EmptyFun
    /\ steps = 0 /\ result = FALSE /\ tlv = NoTlv /\ ubok = TRUE /\ guess = NoGuess
    /\ build = NoBuild

(***************************************************************************)
(* towire_<name>(ctx, x...).                                               *)
(***************************************************************************)
\* The TLV fields of msg the encode delegates to a container.
TlvFieldNames(m) ==
    {m.fields[i].name : i \in {j \in 1..Len(m.fields) :
         m.fields[j].is_tlv /\ ~is_padding(m.fields[j]) /\ ~is_array(m.fields[j])}}

RecordOf(tn, rn) == tlvs[tn][find_message(tlvs[tn], rn)]

\* The undefined calls of an encode: tal_count(&rec->field), one for each
\* length local of each present record of each container, as
\* <<container, record, local>>.
UbSlots(m, v) ==
    UNION {UNION {{<<tn, tlvs[tn][i].name, ln>> : ln \in LenVarNames(tlvs[tn][i])}
                  : i \in {j \in 1..Len(tlvs[tn]) : v[tn][tlvs[tn][j].name].present}}
           : tn \in TlvFieldNames(m)}

\* The outcomes u of those calls, arranged by container, record and local.
UbFun(m, u) ==
    [tn \in TlvFieldNames(m) |->
        [rn \in {tlvs[tn][i].name : i \in 1..Len(tlvs[tn])} |->
            [ln \in LenVarNames(RecordOf(tn, rn)) |->
                IF <<tn, rn, ln>> \in DOMAIN u THEN u[<<tn, rn, ln>>] ELSE 0]]]

\* The count of elements that really lie in the array a slot's call is about.
SlotCount(v, slot) ==
    LET rec == RecordOf(slot[1], slot[2])
        f   == rec.fields[LenDeclOf(rec, slot[3])]
    IN  Len(v[slot[1]][slot[2]].fields[rec.fields[f.lenvar_for].name])

Env(u) == [x |-> x, ptrsize |-> ptrsize, fill |-> fill, tlvs |-> tlvs,
           ub |-> UbFun(msg, u)]

\* What each container encode of the call emitted.
SpansOf(e) ==
    [tn \in TlvFieldNames(msg) |->
        tlv_entries(e.tlvs[tn], e.x[tn], e.ub[tn], e.ptrsize, e.fill)]

TowireWith(e, ok) ==
    /\ enc' = towire(msg, e)
    /\ lens' = towire_field_decls(msg, e)
    /\ spans' = SpansOf(e)
    /\ ubok' = ok

Towire ==
    /\ pc = "ready"
    /\ \E u \in [UbSlots(msg, x) -> TalCounts] :
          TowireWith(Env(u), \A slot \in UbSlots(msg, x) : u[slot] = SlotCount(x, slot))
    /\ pc' = "encoded"
    /\ UNCHANGED <<scenario, buf, variant, fi, d, locals, out, steps, result, tlv, guess, build>>

(***************************************************************************)
(* The buffer handed to fromwire_<name>: the encoded one, a proper prefix  *)
(* of it, it with bytes added, or it under another discriminant.           *)
(***************************************************************************)
Extras == {<<0>>, <<1, 0>>}

OtherTags == {0, 4}

\* The state at the entry of fromwire_<name>(ctx, p, ...).
Enter(b, v) ==
    /\ pc = "encoded"
    /\ buf' = b
    /\ variant' = v
    /\ pc' = "fromwire"
    /\ d' = [cursor |-> 0, plen |-> Len(b), maxread |-> 0]
    /\ locals' = [n \in LenVarNames(msg) |-> 0]
    /\ out' = OutInit(msg, tlvs)
    /\ fi' = 0 /\ steps' = 0
    /\ UNCHANGED <<scenario, encoded, result, tlv, ubok, guess, build>>

DeliverFull == Enter(enc, [kind |-> "full", k |-> Len(enc)])

DeliverTruncated ==
    \E k \in 0..(Len(enc) - 1) : Enter(SubSeq(enc, 1, k), [kind |-> "truncated", k |-> k])

DeliverExtended ==
    \E e \in Extras : Enter(enc \o e, [kind |-> "extended", k |-> Len(enc)])

DeliverOther ==
    \E tg \in OtherTags :
        /\ tg # int(msg.enum.value)
        /\ Enter(BE(tg, 2) \o SubSeq(enc, 3, Len(enc)), [kind |-> "other", k |-> Len(enc)])

(***************************************************************************)
(* fromwire_<name>: fromwire_impl_templ around the subcalls.               *)
(***************************************************************************)
\* Whether the subcall of field f is the call of a container decode.
TlvBranch(f) == ~is_padding(f) /\ ~is_array(f) /\ f.is_tlv

\* A decode that takes any discriminant for its own.
any_type(v, m) == FALSE

\* fromwire_u16(&cursor, &plen) != WIRE_<NAME>
wrong_type(v, m) == v # int(m.enum.value)

\* if (fromwire_u16(&cursor, &plen) != WIRE_<NAME>) return false;
FromwireType ==
    /\ pc = "fromwire"
    /\ d' = fromwire(d, 2)
    /\ IF wrong_type(fromwire_u16(buf, fill, d), msg)
       THEN result' = FALSE /\ pc' = "done" /\ fi' = fi
       ELSE result' = result /\ pc' = "fields" /\ fi' = 1
    /\ UNCHANGED <<scenario, encoded, buf, variant, locals, out, steps, tlv, ubok, guess, build>>

\* One subcall, for a field that is not a TLV field.
FromwireField ==
    /\ pc = "fields" /\ fi <= Len(msg.fields)
    /\ ~TlvBranch(msg.fields[fi])
    /\ LET st == fromwire_field(msg.fields[fi], buf, fill,
                                [d |-> d, locals |-> locals, out |-> out])
       IN  d' = st.d /\ locals' = st.locals /\ out' = st.out
    /\ fi' = fi + 1 /\ steps' = steps + 1
    /\ UNCHANGED <<scenario, encoded, buf, variant, pc, result, tlv, ubok, guess, build>>

\* if (!fromwire__<tlv_name>(ctx, &cursor, &<len>, <tlv_name>)) return false;
FromwireTlvCall ==
    /\ pc = "fields" /\ fi <= Len(msg.fields)
    /\ TlvBranch(msg.fields[fi])
    /\ tlv' = [name |-> msg.fields[fi].name, cursor |-> d.cursor, plen |-> 0,
               len |-> locals[msg.fields[fi].lenvar], log |-> << >>,
               result |-> FALSE, caller |-> "fromwire"]
    /\ pc' = "tlv_enter" /\ steps' = steps + 1
    /\ UNCHANGED <<scenario, encoded, buf, variant, fi, d, locals, out, result, ubok, guess, build>>

\* A decode whose last check lets an exhausted cursor pass.
cursor_unchecked(cursor) == TRUE

\* cursor != NULL, the check the decode ends with.
cursor_not_null(cursor) == cursor # NULLP

\* return cursor != NULL;
FromwireReturn ==
    /\ pc = "fields" /\ fi > Len(msg.fields)
    /\ result' = cursor_not_null(d.cursor)
    /\ pc' = "done"
    /\ UNCHANGED <<scenario, encoded, buf, variant, fi, d, locals, out, steps, tlv, ubok,
                   guess, build>>

(***************************************************************************)
(* fromwire__<tlv_name>(ctx, p, len, <tlv_name>): the container decode of  *)
(* tlv__type_impl_fromwire_template, one action for its entry, one for     *)
(* each turn of its loop, one for the end of the loop, one for its return. *)
(***************************************************************************)
\* The bytes that really lie in the buffer from offset c on.
Remaining(c) == IF c = NULLP \/ c > Len(buf) THEN 0 ELSE Len(buf) - c

\* The position in the container of the record whose tag is type, 0 if none
\* (the switch's default).
KnownRec(tn, type) ==
    LET hits == {i \in 1..Len(tlvs[tn]) : int(tlvs[tn][i].enum.value) = type}
    IN  IF hits = {} THEN 0 ELSE Min(hits)

\* cursor = *p; plen = tal_count(p); if (plen != *len) return false;
\* p is the address of the caller's cursor, so the count is undefined.
TlvEnter ==
    /\ pc = "tlv_enter"
    /\ \E u \in TalOutcomes(Remaining(tlv.cursor)) :
          /\ ubok' = (ubok /\ u = Remaining(tlv.cursor))
          /\ IF u # tlv.len
             THEN tlv' = [tlv EXCEPT !.plen = u, !.result = FALSE] /\ pc' = "tlv_exit"
             ELSE tlv' = [tlv EXCEPT !.plen = u] /\ pc' = "tlv_loop"
    /\ UNCHANGED <<scenario, encoded, buf, variant, fi, d, locals, out, steps, result,
                   guess, build>>

\* A loop that lets every declared length pass.
length_never_exceeds(plen, msg_len) == FALSE

\* if (plen < msg_len)
length_exceeds(plen, msg_len) == plen < msg_len

\* The entry a turn adds to the frame's log: where the turn began, the tag
\* and the length read, the cursor pair after them, what the turn did (act),
\* and for a record decode whether it ran, what it returned, the bytes it
\* consumed, whether its cursor was exhausted.
LogEntry(d2, msg_type, msg_len, act, r, cursor_after) ==
    [start |-> tlv.cursor, type |-> msg_type, len |-> msg_len,
     cursor_hdr |-> d2.cursor, plen_hdr |-> d2.plen, act |-> act, ok |-> r.ok,
     ran |-> r.ran, consumed |-> r.consumed, exhausted |-> r.exhausted,
     cursor_after |-> cursor_after]

NoRecord(ok) == [ok |-> ok, ran |-> FALSE, consumed |-> 0, exhausted |-> FALSE]

\* fromwire_fail(&cursor, &plen); break;
TurnFail(d2, msg_type, msg_len) ==
    /\ tlv' = [tlv EXCEPT !.cursor = NULLP, !.plen = 0,
                  !.log = Append(@, LogEntry(d2, msg_type, msg_len, "fail",
                                             NoRecord(FALSE), NULLP))]
    /\ d' = [d EXCEPT !.maxread = d2.maxread]
    /\ out' = out /\ pc' = pc

\* case TLV_<NAME>: if (!_fromwire_<tlv>_<name>(cursor, msg_len, rec)) return
\* false; break;  The record decode has the cursor by value: the loop's own
\* cursor and plen stay where the header left them.
TurnKnown(d2, msg_type, msg_len, rec, r) ==
    /\ tlv' = [tlv EXCEPT !.cursor = d2.cursor, !.plen = d2.plen,
                  !.result = IF r.ok THEN @ ELSE FALSE,
                  !.log = Append(@, LogEntry(d2, msg_type, msg_len, "known", r,
                                             d2.cursor))]
    /\ d' = [d EXCEPT !.maxread = r.maxread]
    /\ out' = [out EXCEPT ![tlv.name][rec.name] =
                             [present |-> @.present \/ r.ran, fields |-> r.rec]]
    /\ pc' = IF r.ok THEN pc ELSE "tlv_exit"

\* default: cursor += msg_len; plen -= msg_len;
TurnSkip(d2, msg_type, msg_len, after) ==
    /\ tlv' = [tlv EXCEPT !.cursor = after, !.plen = d2.plen - msg_len,
                  !.log = Append(@, LogEntry(d2, msg_type, msg_len, "skip",
                                             NoRecord(TRUE), after))]
    /\ d' = [d EXCEPT !.maxread = d2.maxread]
    /\ out' = out /\ pc' = pc

TurnSwitch(count, d2, msg_type, msg_len, rec) ==
    TurnKnown(d2, msg_type, msg_len, rec,
              fromwire_tlv_record(rec, buf, fill, d2.cursor, d2.maxread, msg_len, count,
                                  out[tlv.name][rec.name].fields))

TurnBody(count, d2, msg_type, msg_len, k) ==
    IF length_exceeds(d2.plen, msg_len) THEN TurnFail(d2, msg_type, msg_len)
    ELSE IF k # 0 THEN TurnSwitch(count, d2, msg_type, msg_len, tlvs[tlv.name][k])
    ELSE TurnSkip(d2, msg_type, msg_len,
                  IF d2.cursor = NULLP THEN NULLP ELSE d2.cursor + msg_len)

TurnLength(count, d1, msg_type) ==
    TurnBody(count, fromwire(d1, 2), msg_type, fromwire_u16(buf, fill, d1),
             KnownRec(tlv.name, msg_type))

TurnTag(count, d0) == TurnLength(count, fromwire(d0, 2), fromwire_u16(buf, fill, d0))

\* One turn of while (cursor && plen): the tag, the length, the length check,
\* the switch.  count is what the record decode's tal_count(p) returns: 0 for
\* a NULL cursor, undefined for a cursor into the buffer.
TlvTurn(count) ==
    TurnTag(count, [cursor |-> tlv.cursor, plen |-> tlv.plen, maxread |-> d.maxread])

\* Whether the turn at hand dispatches to a record decode with a cursor into
\* the buffer (the case whose tal_count is undefined).
TurnDispatches ==
    LET d0 == [cursor |-> tlv.cursor, plen |-> tlv.plen, maxread |-> d.maxread]
        d1 == fromwire(d0, 2)
        d2 == fromwire(d1, 2)
    IN  /\ d2.cursor # NULLP
        /\ ~length_exceeds(d2.plen, fromwire_u16(buf, fill, d1))
        /\ KnownRec(tlv.name, fromwire_u16(buf, fill, d0)) # 0

\* A loop that goes on for as long as the cursor is not NULL.
loop_while_cursor(cursor, plen) == cursor # NULLP

\* while (cursor && plen)
loop_continues(cursor, plen) == cursor # NULLP /\ plen # 0

TlvIter ==
    /\ pc = "tlv_loop"
    /\ loop_continues(tlv.cursor, tlv.plen)
    /\ IF TurnDispatches
       THEN \E u \in TalOutcomes(Remaining(tlv.cursor + 4)) :
               /\ TlvTurn(u)
               /\ ubok' = (ubok /\ u = Remaining(tlv.cursor + 4))
       ELSE TlvTurn(0) /\ ubok' = ubok
    /\ UNCHANGED <<scenario, encoded, buf, variant, fi, locals, steps, result, guess, build>>

\* The loop's condition fails: return cursor != NULL;
TlvLoopEnd ==
    /\ pc = "tlv_loop"
    /\ ~loop_continues(tlv.cursor, tlv.plen)
    /\ tlv' = [tlv EXCEPT !.result = (tlv.cursor # NULLP)]
    /\ pc' = "tlv_exit"
    /\ UNCHANGED <<scenario, encoded, buf, variant, fi, d, locals, out, steps, result,
                   ubok, guess, build>>

\* Back in the caller: fromwire_<name> returns false on failure and goes on to
\* its next subcall otherwise, its own cursor and plen as they were.
TlvReturn ==
    /\ pc = "tlv_exit"
    /\ IF tlv.caller = "fromwire" /\ tlv.result
       THEN pc' = "fields" /\ fi' = fi + 1 /\ result' = result
       ELSE pc' = "done" /\ fi' = fi /\ result' = tlv.result
    /\ UNCHANGED <<scenario, encoded, buf, variant, d, locals, out, steps, tlv, ubok,
                   guess, build>>

Next ==
    \/ Towire
    \/ DeliverFull
    \/ DeliverTruncated
    \/ DeliverExtended
    \/ DeliverOther
    \/ FromwireType
    \/ FromwireField
    \/ FromwireTlvCall
    \/ FromwireReturn
    \/ TlvEnter
    \/ TlvIter
    \/ TlvLoopEnd
    \/ TlvReturn

Spec == Init /\ [][Next]_vars

(***************************************************************************)
(* The container decode on spans a peer made: a message whose fields are a *)
(* length and a TLV field, received with a span of up to MaxEntries        *)
(* entries, among them entries of an unknown tag, entries whose declared   *)
(* length is not what the record decode consumes, and entries that declare *)
(* more than the span holds.                                               *)
(***************************************************************************)
SpanEntry(tag, len, payload) == [tag |-> tag, len |-> len, payload |-> payload]

SpanEntries(tn) ==
    CASE tn = "ext" ->
            {SpanEntry(1, 8, Zeros(8)), SpanEntry(1, 8, <<1, 2, 3, 4, 5, 6, 7, 8>>),
             SpanEntry(2, 4, Zeros(4)), SpanEntry(2, 4, <<0, 0, 0, 9>>),
             SpanEntry(3, 5, <<1, 2, 3, 4, 5>>), SpanEntry(3, 0, << >>),
             SpanEntry(2, 8, Zeros(8)), SpanEntry(1, 4, Zeros(4)),
             SpanEntry(1, 200, <<0, 0>>)}
      [] tn = "var" ->
            {SpanEntry(1, 2, <<0, 0>>), SpanEntry(1, 3, <<0, 1, 7>>),
             SpanEntry(3, 1, <<9>>), SpanEntry(1, 4, <<0, 1, 7, 9>>),
             SpanEntry(1, 2, <<0, 2>>)}
      [] tn = "tpad" ->
            {SpanEntry(1, 4, <<0, 0, 1, 2>>), SpanEntry(5, 1, <<7>>)}
      [] OTHER -> {}

Spans(tn) == UNION {[1..n -> SpanEntries(tn)] : n \in 0..MaxEntries}

RECURSIVE span_bytes(_, _)
span_bytes(es, i) ==
    IF i > Len(es) THEN << >>
    ELSE BE(es[i].tag, 2) \o BE(es[i].len, 2) \o es[i].payload \o span_bytes(es, i + 1)

\* The messages received: a length field, then the TLV field it is the length of.
LenThenTlv(m) ==
    /\ Len(m.fields) = 2
    /\ m.fields[1].is_len_var /\ m.fields[1].fieldtype = "u16"
    /\ TlvBranch(m.fields[2]) /\ m.fields[2].lenvar = m.fields[1].name

\* The buffer of message m around span es.
Received(m, es) ==
    BE(int(m.enum.value), 2) \o BE(Len(span_bytes(es, 1)), 2) \o span_bytes(es, 1)

InitTlv ==
    /\ \E c \in 1..Len(Corpus) :
          /\ ~Built(c).err
          /\ tlvs = Built(c).tlv_fields
          /\ \E i \in 1..Len(TopLevel(Built(c))) :
                /\ msg = TopLevel(Built(c))[i]
                /\ ~GenRaises(msg)
                /\ LenThenTlv(msg)
                /\ \E es \in Spans(msg.fields[2].name) :
                      /\ buf = Received(msg, es)
                      /\ variant = [kind |-> "span", k |-> Len(Received(msg, es)),
                                    entries |-> es]
    /\ ptrsize \in PtrSizes
    /\ fill \in FillBytes
    /\ x = EmptyFun /\ enc = << >> /\ lens = EmptyFun /\ spans = EmptyFun
    /\ pc = "fromwire" /\ fi = 0 /\ steps = 0
    /\ d = [cursor |-> 0, plen |-> Len(buf), maxread |-> 0]
    /\ locals = [n \in LenVarNames(msg) |-> 0]
    /\ out = OutInit(msg, tlvs)
    /\ result = FALSE /\ tlv = NoTlv /\ ubok = TRUE /\ guess = NoGuess
    /\ build = NoBuild

NextTlv ==
    \/ FromwireType
    \/ FromwireField
    \/ FromwireTlvCall
    \/ FromwireReturn
    \/ TlvEnter
    \/ TlvIter
    \/ TlvLoopEnd
    \/ TlvReturn

SpecTlv == InitTlv /\ [][NextTlv]_vars

(***************************************************************************)
(* The container decode run to its end: spans of up to MaxFairEntries      *)
(* entries, among them a known record, unknown tags with and without       *)
(* payload, a record of the wrong length and an entry that declares more   *)
(* than the span holds.  The generated C is sequential code, so no step of *)
(* the decode is held back for ever: weak fairness of the next step.       *)
(***************************************************************************)
MaxFairEntries == 2

FairEntries(tn) ==
    CASE tn = "ext" ->
            {SpanEntry(1, 8, Zeros(8)), SpanEntry(3, 5, <<1, 2, 3, 4, 5>>),
             SpanEntry(3, 0, << >>), SpanEntry(1, 4, Zeros(4)),
             SpanEntry(1, 200, <<0, 0>>)}
      [] tn = "var" ->
            {SpanEntry(1, 3, <<0, 1, 7>>), SpanEntry(3, 1, <<9>>)}
      [] OTHER -> {}

FairSpans(tn) == UNION {[1..n -> FairEntries(tn)] : n \in 0..MaxFairEntries}

InitTlvFair ==
    /\ \E c \in 1..Len(Corpus) :
          /\ ~Built(c).err
          /\ tlvs = Built(c).tlv_fields
          /\ \E i \in 1..Len(TopLevel(Built(c))) :
                /\ msg = TopLevel(Built(c))[i]
                /\ ~GenRaises(msg)
                /\ LenThenTlv(msg)
                /\ \E es \in FairSpans(msg.fields[2].name) :
                      /\ buf = Received(msg, es)
                      /\ variant = [kind |-> "span", k |-> Len(Received(msg, es)),
                                    entries |-> es]
    /\ ptrsize = 8
    /\ fill \in FillBytes
    /\ x = EmptyFun /\ enc = << >> /\ lens = EmptyFun /\ spans = EmptyFun
    /\ pc = "fromwire" /\ fi = 0 /\ steps = 0
    /\ d = [cursor |-> 0, plen |-> Len(buf), maxread |-> 0]
    /\ locals = [n \in LenVarNames(msg) |-> 0]
    /\ out = OutInit(msg, tlvs)
    /\ result = FALSE /\ tlv = NoTlv /\ ubok = TRUE /\ guess = NoGuess
    /\ build = NoBuild

SpecTlvFair == InitTlvFair /\ [][NextTlv]_vars /\ WF_vars(NextTlv)

(***************************************************************************)
(* Field._guess_type on its own: the inputs are drawn from messages and    *)
(* field names of the tables and from names and sizes outside them, and    *)
(* the lookup is run up to MaxRuns times on the same inputs.               *)
(***************************************************************************)
MaxRuns == 2

GuessMessages == {"channel_update", "node_announcement", "update_add_htlc", "open_channel"}

GuessFields ==
    {"short_channel_id", "fee_base_msat", "ipv6", "alias", "onion_routing_packet",
     "channel_id", "signature", "htlc_signature", "features", "globalfeatures",
     "signature_features", "features_signature", "funding_txid_pad", "padding",
     "amount_msat", "pad_msat", "funding_satoshis", "chain_hash", "len", "x"}

GuessSizes == {0, 1, 2, 3, 4, 8, 16, 32, 33, 64}

InitGuess ==
    /\ \E m \in GuessMessages, f \in GuessFields, n \in GuessSizes :
          guess = [message |-> m, fieldname |-> f, base_size |-> n, type |-> NoneStr,
                   first |-> NoneStr, runs |-> 0]
    /\ msg = Message(NoneStr, NoneStr, "0", FALSE) /\ tlvs = EmptyFun
    /\ ptrsize = 8 /\ fill = 0 /\ x = EmptyFun
    /\ enc = << >> /\ lens = EmptyFun /\ spans = EmptyFun
    /\ buf = << >> /\ variant = [kind |-> "none", k |-> 0]
    /\ pc = "guess" /\ fi = 0 /\ d = NoD /\ locals = EmptyFun /\ out = EmptyFun
    /\ steps = 0 /\ result = FALSE /\ tlv = NoTlv /\ ubok = TRUE
    /\ build = NoBuild

\* self.fieldtype = Field._guess_type(message, self.name, base_size)
GuessType ==
    /\ pc = "guess" /\ guess.runs < MaxRuns
    /\ guess' = [guess EXCEPT
                    !.type = guess_type(guess.message, guess.fieldname, guess.base_size),
                    !.first = IF guess.runs = 0
                              THEN guess_type(guess.message, guess.fieldname,
                                              guess.base_size)
                              ELSE @,
                    !.runs = @ + 1]
    /\ UNCHANGED <<scenario, encoded, buf, variant, pc, fi, d, locals, out, steps, result,
                   tlv, ubok, build>>

NextGuess == GuessType

SpecGuess == InitGuess /\ [][NextGuess]_vars

(***************************************************************************)
(* A run of the generator: the main loop reads the records of the schema   *)
(* one at a time, then the generation passes print the artifact of the     *)
(* flavor the command line selected.  build.g holds the globals, build.n   *)
(* the number of records read, build.parts the last record read,           *)
(* build.named the (message, option) pairs the records of five parts read  *)
(* so far have named (the option with '-' as '_'), and                     *)
(* build.pc is "read" while the loop goes on, "failed" once an exception   *)
(* ended the run and "generated" once the artifact is printed.             *)
(***************************************************************************)
\* The most records one run reads.
MaxRecords == 4

\* The record sets the runs draw from, each with the mode it is read in.
Vocab ==
    << [bolt |-> FALSE,
        records |-> {<<"a", "1">>, <<"a", "0", "len", "u16">>, <<"a", "0", "len", "2*u16">>,
                     <<"a", "0", "len", "?u16">>, <<"a", "0", "pad", "u16">>,
                     <<"a", "2", "data", "len*u8">>, <<"a", "2", "data", "pad*u8">>,
                     <<"a", "2", "s", "struct utxo">>, <<"a", "2", "arr", "3*u8">>}],
       [bolt |-> FALSE,
        records |-> {<<"a", "1">>, <<"b", "2">>, <<"a", "0", "len", "u16">>,
                     <<"a", "2", "x", "u8">>, <<"a", "2", "data", "len*u8">>,
                     <<"b", "0", "data", "len*u8">>, <<"a", "2", "x", "u8", "o">>,
                     <<"a", "2", "data", "len*u8", "o">>, <<"c", "0", "x", "u8">>,
                     <<"c", "0", "x", "u8", "o">>, <<"a", "0", "x">>}],
       [bolt |-> FALSE,
        records |-> {<<"a", "1">>, <<"a", "0", "len", "u16">>,
                     <<"a", "2", "ext+", "len*u8">>, <<"a", "2", "nested+", "len*u8">>,
                     <<"a", "2", "topt+", "len*u8">>, <<"a", "2", "loop+", "len*u8">>,
                     <<"a", "2", "dup+", "len*u8">>, <<"a", "2", "ext+", "u8">>,
                     <<"a", "2", "var+", "len*u8">>,
                     <<"a", "2", "gone+", "len*u8">>}],
       [bolt |-> TRUE,
        records |-> {<<"a", "1">>, <<"a", "0", "len", "2">>, <<"a", "0", "n", "4">>,
                     <<"a", "2", "data", "len">>, <<"a", "2", "data", "n">>,
                     <<"a", "2", "features", "?8">>, <<"a", "2", "features", "len*8">>,
                     <<"a", "2", "channel_id", "33">>, <<"a", "2", "signature", "128">>,
                     <<"a", "2", "x", "3">>, <<"a", "2", "x", "u8">>,
                     <<"a", "2", "extb+", "len">>}],
       [bolt |-> FALSE,
        records |-> {<<"a", "1">>, <<"a", "2">>, <<"b", "1">>, <<"a_o", "3">>,
                     <<"a", "0", "x", "u8">>, <<"a", "0", "x", "u8", "o">>,
                     <<"a", "0", "s", "3*struct utxo">>}],
       [bolt |-> FALSE,
        records |-> {<<"a", "1">>, <<"a_b", "2">>, <<"a", "0", "x", "u8">>,
                     <<"a_b", "0", "y", "u16">>, <<"a", "2", "z", "u8", "b_c">>,
                     <<"a_b", "2", "w", "u8", "c">>, <<"a", "2", "v", "u8", "o-1">>,
                     <<"a", "3", "v2", "u8", "o_1">>}] >>

\* print_printwire: the assertions that no externally-allocated struct is
\* printed.
PrintwireRaises(m) ==
    \E i \in 1..Len(m.fields) :
        /\ ~m.fields[i].is_len_var /\ ~is_padding(m.fields[i])
        /\ base(m.fields[i].fieldtype) \in varlen_structs
        /\ IF is_array(m.fields[i]) \/ is_variable_size(m.fields[i])
           THEN /\ ~has_array_helper(m.fields[i])
                /\ ~FieldType_is_assignable(m.fields[i].fieldtype)
           ELSE ~is_assignable(m.fields[i])

\* Whether the generation passes raise: --printwire prints the top-level
\* messages alone; otherwise the records of every container are printed,
\* then the top-level messages, and with --header the print of a TLV record
\* returns '' before it looks at a field.
GenerateRaises(header, printwire, g) ==
    IF printwire THEN \E i \in 1..Len(TopLevel(g)) : PrintwireRaises(TopLevel(g)[i])
    ELSE \/ \E tn \in DOMAIN g.tlv_fields : \E i \in 1..Len(g.tlv_fields[tn]) :
               ~header /\ GenRaises(g.tlv_fields[tn][i])
         \/ \E i \in 1..Len(TopLevel(g)) :
               IF TopLevel(g)[i].is_tlv THEN ~header /\ GenRaises(TopLevel(g)[i])
               ELSE GenRaises(TopLevel(g)[i])

\* The functions a full definition artifact defines, each with the place it
\* is printed for: the record decodes and encodes of every container, the
\* container decodes and encodes, the decode and encode of every message of
\* messages + messages_with_option.
entry_points(g) ==
    UNION {{[for |-> <<"record", tn, i>>,
             fromwire |-> "_fromwire_" \o tn \o "_" \o g.tlv_fields[tn][i].name,
             towire |-> "_towire_" \o tn \o "_" \o g.tlv_fields[tn][i].name] :
                i \in 1..Len(g.tlv_fields[tn])} : tn \in DOMAIN g.tlv_fields}
    \cup {[for |-> <<"container", tn, 0>>, fromwire |-> "fromwire__" \o tn,
           towire |-> "towire__" \o tn] : tn \in DOMAIN g.tlv_fields}
    \cup {[for |-> <<"message", "", i>>,
           fromwire |-> IF TopLevel(g)[i].is_tlv
                        THEN "_fromwire__" \o TopLevel(g)[i].name
                        ELSE "fromwire_" \o TopLevel(g)[i].name,
           towire |-> IF TopLevel(g)[i].is_tlv
                      THEN "_towire__" \o TopLevel(g)[i].name
                      ELSE "towire_" \o TopLevel(g)[i].name] :
              i \in 1..Len(TopLevel(g))}

InitBuild ==
    /\ \E v \in 1..Len(Vocab) :
          build = [pc |-> "read", bolt |-> Vocab[v].bolt, vocab |-> v, g |-> InitBuilder,
                   n |-> 0, parts |-> << >>, named |-> {}, header |-> FALSE,
                   printwire |-> FALSE]
    /\ msg = Message(NoneStr, NoneStr, "0", FALSE) /\ tlvs = EmptyFun
    /\ ptrsize = 8 /\ fill = 0 /\ x = EmptyFun
    /\ enc = << >> /\ lens = EmptyFun /\ spans = EmptyFun
    /\ buf = << >> /\ variant = [kind |-> "none", k |-> 0]
    /\ pc = "build" /\ fi = 0 /\ d = NoD /\ locals = EmptyFun /\ out = EmptyFun
    /\ steps = 0 /\ result = FALSE /\ tlv = NoTlv /\ ubok = TRUE /\ guess = NoGuess

\* The run after one pass of the main loop left the globals as g2.
Stepped(b, parts, g2) ==
    [b EXCEPT !.g = g2, !.n = @ + 1, !.parts = parts,
              !.named = IF Len(parts) = 5
                        THEN @ \cup {<<parts[1], replace_dash(parts[5])>>} ELSE @,
              !.pc = IF g2.err THEN "failed" ELSE "read"]

\* One pass of the main loop over the record parts.
ReadStep(parts) ==
    /\ pc = "build" /\ build.pc = "read" /\ build.n < MaxRecords
    /\ build' = Stepped(build, parts, ReadRecord(build.bolt, build.g, parts))
    /\ UNCHANGED <<scenario, encoded, buf, variant, pc, fi, d, locals, out, steps, result,
                   tlv, ubok, guess>>

\* if len(parts) == 2: a message starts.
MessageStart ==
    \E parts \in {r \in Vocab[build.vocab].records : Len(r) = 2} : ReadStep(parts)

\* len(parts) == 4: a field of a message.
FieldRecord ==
    \E parts \in {r \in Vocab[build.vocab].records : Len(r) = 4} : ReadStep(parts)

\* len(parts) == 5: a field of an option variant of a message.
OptionRecord ==
    \E parts \in {r \in Vocab[build.vocab].records : Len(r) = 5} : ReadStep(parts)

\* Any other record: raise ValueError('Line ... malformed').
Malformed ==
    \E parts \in {r \in Vocab[build.vocab].records : Len(r) \notin {2, 4, 5}} :
        ReadStep(parts)

\* The input is at its end: the generation passes of the selected flavor.
Generate ==
    /\ pc = "build" /\ build.pc = "read"
    /\ \E header, printwire \in BOOLEAN :
          build' = [build EXCEPT
                       !.header = header, !.printwire = printwire,
                       !.pc = IF GenerateRaises(header, printwire, build.g)
                              THEN "failed" ELSE "generated"]
    /\ UNCHANGED <<scenario, encoded, buf, variant, pc, fi, d, locals, out, steps, result,
                   tlv, ubok, guess>>

NextBuild ==
    \/ MessageStart
    \/ FieldRecord
    \/ OptionRecord
    \/ Malformed
    \/ Generate

SpecBuild == InitBuild /\ [][NextBuild]_vars

(***************************************************************************)
(* The claims, each against the specification named with it.               *)
(***************************************************************************)
\* C1 (Spec): round trip.  For every message of a legal schema and every
\* legal value x of its caller-visible fields, the generated decode of the
\* buffer the generated encode made of x succeeds and yields exactly x; the
\* undefined tal_count calls are granted the count that really lies at their
\* argument (ubok).
C1_RoundTrip ==
    (pc = "done" /\ variant.kind = "full" /\ ubok) => (result /\ out = x)

\* C1 for the messages without a TLV field.
C1_RoundTripNoTlv ==
    (pc = "done" /\ variant.kind = "full" /\ TlvFieldNames(msg) = {})
        => (result /\ out = x)

\* C2 (Spec): truncation safety.  The generated decode of the first k bytes of
\* an encoded buffer, 0 <= k < len, reports failure and reads no byte at an
\* index >= k.
C2_TruncationSafe ==
    (pc = "done" /\ variant.kind = "truncated")
        => (~result /\ d.maxread <= variant.k)

\* C3 (Spec): trailing tolerance.  The generated decode of encode(x) followed
\* by extra bytes succeeds and yields x, the undefined tal_count calls being
\* granted the true count.
C3_TrailingTolerated ==
    (pc = "done" /\ variant.kind = "extended" /\ ubok) => (result /\ out = x)

\* C4 (SpecGuess): in --bolt mode an exact (message, field) entry of typemap
\* wins over every fragment of partialtypemap, the first fragment in table
\* order that the field name contains wins over the later ones and over
\* sizetypemap, the byte count decides when neither matches, the lookup fails
\* when nothing matches, and a second lookup of the same inputs gives the
\* type the first one gave.
C4_TypePriority ==
    guess.runs > 0 =>
        LET override  == {e \in typemap :
                             e[1] = guess.message /\ e[2] = guess.fieldname}
            fragments == {i \in 1..Len(partialtypemap) :
                             contains(partialtypemap[i][1], guess.fieldname)}
        IN  /\ \A e \in override : guess.type = e[3]
            /\ override = {} =>
                  \A i \in fragments :
                      (\A j \in fragments : i <= j) => guess.type = partialtypemap[i][2]
            /\ (override = {} /\ fragments = {} /\ guess.base_size \in DOMAIN sizetypemap)
                  => guess.type = sizetypemap[guess.base_size]
            /\ (override = {} /\ fragments = {} /\ guess.base_size \notin DOMAIN sizetypemap)
                  => guess.type = ErrStr
            /\ guess.type = guess.first

\* C4's case: a field with an override whose name also contains a fragment
\* and whose size is in the size table, looked up twice.
C4_Witness ==
    /\ guess.runs > 1
    /\ guess.message = "channel_update" /\ guess.fieldname = "short_channel_id"
    /\ guess.base_size = 8
    /\ guess.type = "struct short_channel_id"

\* C5 (Spec): in every encoded buffer the value written for a length field is
\* the element count of every field that uses it as its length, and for a
\* TLV field the byte length of the encoded container.
C5_LengthRecomputed ==
    (pc # "ready" /\ ubok) =>
        \A i \in 1..Len(msg.fields) :
            (is_variable_size(msg.fields[i]) /\ msg.fields[i].name \in DOMAIN x) =>
                lens[msg.fields[i].lenvar] =
                    IF msg.fields[i].name \in DOMAIN spans
                    THEN Len(entries_bytes(spans[msg.fields[i].name], 1))
                    ELSE Len(x[msg.fields[i].name])

\* C6 (SpecTlv): TLV forward compatibility.  On a span of well-formed entries
\* of which one at least has a tag the decoder does not know, the container
\* decode succeeds, every known record holds the value its payload encodes,
\* and every unknown entry is skipped once, by 2 + 2 + length bytes; the
\* undefined tal_count calls are granted the true count.
RECURSIVE EntryStart(_, _)
EntryStart(es, i) ==
    IF i = 1 THEN 4 ELSE EntryStart(es, i - 1) + 4 + Len(es[i - 1].payload)

\* The decode of an entry's payload on its own, by the record of its tag.
TrueRecord(tn, e) ==
    fromwire_tlv_record(tlvs[tn][KnownRec(tn, e.tag)], e.payload, 0, 0, 0, e.len,
                        Len(e.payload), UnsetRec(tlvs[tn][KnownRec(tn, e.tag)]))

WellFormedEntry(tn, e) ==
    /\ Len(e.payload) = e.len
    /\ KnownRec(tn, e.tag) # 0 => TrueRecord(tn, e).ok

WellFormedSpan(tn, es) ==
    /\ \A i \in 1..Len(es) : WellFormedEntry(tn, es[i])
    /\ \A i, j \in 1..Len(es) : (i # j /\ KnownRec(tn, es[i].tag) # 0)
                                    => es[i].tag # es[j].tag
    /\ \E i \in 1..Len(es) : KnownRec(tn, es[i].tag) = 0

C6_ForwardCompatible ==
    (/\ pc = "done" /\ variant.kind = "span" /\ ubok
     /\ WellFormedSpan(msg.fields[2].name, variant.entries))
    => LET tn == msg.fields[2].name
           es == variant.entries
       IN  /\ result /\ tlv.result
           /\ \A i \in 1..Len(es) :
                 IF KnownRec(tn, es[i].tag) # 0
                 THEN out[tn][tlvs[tn][KnownRec(tn, es[i].tag)].name] =
                          [present |-> TRUE, fields |-> TrueRecord(tn, es[i]).rec]
                 ELSE Cardinality({j \in 1..Len(tlv.log) :
                          /\ tlv.log[j].start = EntryStart(es, i)
                          /\ tlv.log[j].act = "skip"
                          /\ tlv.log[j].cursor_after =
                                 EntryStart(es, i) + 4 + es[i].len}) = 1

\* C7 (Spec): the container encode emits nothing for an absent record and,
\* for a present one, its tag, a 16-bit length equal to the number of bytes
\* the record's own encode then writes, and those bytes; the undefined
\* tal_count calls are granted the true count.
C7_EntryLength ==
    (pc # "ready" /\ ubok) =>
        \A tn \in DOMAIN spans :
            \A i \in 1..Len(spans[tn]) :
                IF spans[tn][i].present
                THEN /\ spans[tn][i].tag = int(tlvs[tn][i].enum.value)
                     /\ spans[tn][i].len = Len(spans[tn][i].bytes)
                ELSE spans[tn][i].bytes = << >>

\* C8 (SpecTlv): an entry whose declared length exceeds what remains of the
\* span ends the container decode with failure: no record decode runs for
\* it, no bytes are skipped for it, and no turn follows it.
C8_OverlongFails ==
    \A i \in 1..Len(tlv.log) :
        tlv.log[i].len > tlv.log[i].plen_hdr =>
            /\ tlv.log[i].act = "fail" /\ ~tlv.log[i].ran
            /\ tlv.log[i].cursor_after = NULLP
            /\ i = Len(tlv.log)
            /\ tlv.cursor = NULLP
            /\ pc \in {"tlv_loop", "tlv_exit", "done"}
            /\ pc = "tlv_exit" => ~tlv.result
            /\ pc = "done" => ~result

\* C8's case: a decode that met an over-long entry and has returned.
C8_Witness ==
    /\ pc = "done" /\ ~result
    /\ \E i \in 1..Len(tlv.log) :
          /\ tlv.log[i].len > tlv.log[i].plen_hdr
          /\ tlv.log[i].cursor_hdr # NULLP
          /\ tlv.log[i].act = "fail"

\* C9 (SpecTlv): a record decode returns success only when it consumed
\* exactly the entry's declared length and never exhausted its cursor, and a
\* record decode that returns failure (so any that consumed fewer or more)
\* makes the container decode fail at once.
C9_LengthMismatchFails ==
    \A i \in 1..Len(tlv.log) :
        tlv.log[i].act = "known" =>
            /\ tlv.log[i].ok =>
                  (/\ tlv.log[i].ran /\ ~tlv.log[i].exhausted
                   /\ tlv.log[i].consumed = tlv.log[i].len)
            /\ ~tlv.log[i].ok =>
                  (/\ i = Len(tlv.log)
                   /\ pc \in {"tlv_exit", "done"}
                   /\ ~tlv.result
                   /\ pc = "done" => ~result)

\* C9's case: after a record decode that returned success, one that ran to
\* its end with its cursor intact and had consumed another number of bytes
\* than declared, and the decode has returned.
C9_Witness ==
    /\ pc = "done" /\ ~result
    /\ \E i, j \in 1..Len(tlv.log) :
          /\ tlv.log[i].act = "known" /\ tlv.log[i].ok /\ tlv.log[i].len > 0
          /\ tlv.log[j].act = "known" /\ tlv.log[j].ran /\ ~tlv.log[j].exhausted
          /\ tlv.log[j].consumed # tlv.log[j].len

\* C10 (Spec): a top-level decode whose buffer starts with another
\* discriminant than the message's own returns failure with no field subcall
\* run (so no field read and no allocation), no byte read beyond the
\* discriminant and no caller output written.
C10_WrongTypeFailsFirst ==
    (/\ pc \in {"fields", "tlv_enter", "tlv_loop", "tlv_exit", "done"}
     /\ fromwire_u16(buf, fill, [cursor |-> 0, plen |-> Len(buf), maxread |-> 0])
            # int(msg.enum.value))
    => (/\ pc = "done" /\ ~result
        /\ steps = 0 /\ fi = 0
        /\ d.maxread <= 2
        /\ out = OutInit(msg, tlvs)
        /\ tlv = NoTlv)

\* C10's case: a buffer under another discriminant, decoded.
C10_Witness ==
    /\ pc = "done" /\ variant.kind = "other" /\ ~result
    /\ Len(msg.fields) > 0 /\ Len(buf) > 2
    /\ steps = 0

\* C11 as stated (Spec): once a read of the decode needed more bytes than
\* remained, the cursor pair stays as the failed read left it through every
\* later step, and the failure is returned by the one check at the end of the
\* decode, after the last field.
C11_PoisonSingleCheck ==
    /\ [][(pc \in {"fields", "tlv_enter", "tlv_loop", "tlv_exit"} /\ d.cursor = NULLP)
             => d' = d]_vars
    /\ []((pc = "done" /\ d.cursor = NULLP) => (~result /\ fi > Len(msg.fields)))

\* C11 amended (Spec): once a read of the decode needed more bytes than
\* remained, the cursor pair stays as the failed read left it (exhausted, no
\* length left, no further byte touched) through every later step, and the
\* decode returns failure: from the check at its end, from the discriminant
\* check when the buffer is shorter than the discriminant, or from the check
\* of the result of a container decode.
C11_PoisonPropagates ==
    /\ [][(pc \in {"fields", "tlv_enter", "tlv_loop", "tlv_exit"} /\ d.cursor = NULLP)
             => d' = d]_vars
    /\ []((pc = "done" /\ d.cursor = NULLP)
             => /\ ~result
                /\ \/ fi > Len(msg.fields)
                   \/ fi = 0 /\ Len(buf) < 2
                   \/ fi \in 1..Len(msg.fields) /\ TlvBranch(msg.fields[fi]))

\* C11's case: a buffer cut right after the discriminant, so that the first
\* field's read exhausts the cursor and every later field step runs on it.
C11_Witness ==
    /\ pc = "done" /\ variant.kind = "truncated" /\ variant.k = 2
    /\ Len(msg.fields) >= 2 /\ fi > Len(msg.fields) /\ steps = Len(msg.fields)
    /\ d.cursor = NULLP /\ ~result

(***************************************************************************)
(* The claims about the builder (SpecBuild).                               *)
(***************************************************************************)
\* Every message the builder holds: messages, messages_with_option and the
\* records of every container.
AllMessages(g) ==
    {g.messages[i] : i \in 1..Len(g.messages)}
    \cup {g.messages_with_option[i] : i \in 1..Len(g.messages_with_option)}
    \cup UNION {{g.tlv_fields[tn][i] : i \in 1..Len(g.tlv_fields[tn])} :
                   tn \in DOMAIN g.tlv_fields}

\* The message a field record of the top-level file is for, as the globals g
\* stand before the record is read: found is FALSE when there is none.
RecordTarget(g, parts) ==
    LET t == FindTarget(g.messages, g.messages_with_option, parts)
    IN  [found |-> ~t[3],
         m |-> IF t[3] THEN Message(NoneStr, NoneStr, "0", FALSE)
               ELSE IF Len(parts) = 4 THEN g.messages[t[2]] ELSE t[1][t[2]]]

\* Whether the fields of m hold, before position j, a field called name whose
\* first occurrence is a plain scalar (and of type u16 in --bolt mode).
PlainLengthBefore(bolt, m, name, j) ==
    \E i \in 1..(j - 1) :
        /\ m.fields[i].name = name
        /\ \A k \in 1..(i - 1) : m.fields[k].name # name
        /\ m.fields[i].num_elems <= 1 /\ ~startswith(m.fields[i].name, "pad")
        /\ ~m.fields[i].optional /\ m.fields[i].lenvar = NoneStr
        /\ m.fields[i].is_len_var
        /\ bolt => m.fields[i].fieldtype = "u16"

\* C12 (SpecBuild): after any sequence of accepted records, every
\* length-prefixed field of every message (top-level, option variant, TLV
\* record) names as its length a field that stands earlier in the same field
\* list and is not an array, not padding, not optional, not length-prefixed
\* itself, and of type u16 in --bolt mode; a field record that would break
\* this ends the run with an error.
C12_LengthFieldRules ==
    /\ [](build.pc \in {"read", "generated"} =>
            \A m \in AllMessages(build.g) : \A j \in 1..Len(m.fields) :
                m.fields[j].lenvar # NoneStr
                    => PlainLengthBefore(build.bolt, m, m.fields[j].lenvar, j))
    /\ [][\A parts \in Vocab[build.vocab].records :
            (/\ build.pc = "read" /\ build'.n = build.n + 1 /\ build'.parts = parts
             /\ Len(parts) \in {4, 5}
             /\ RecordTarget(build.g, parts).found
             /\ LET m == RecordTarget(build.g, parts).m
                    f == Field(build.bolt, m.name, parts[3], parts[4], build.g.prevfield)
                IN  /\ f.lenvar # NoneStr
                    /\ ~PlainLengthBefore(build.bolt,
                                          [m EXCEPT !.fields =
                                              [i \in 1..Len(m.fields) |->
                                                  [m.fields[i] EXCEPT !.is_len_var = TRUE]]],
                                          f.lenvar, Len(m.fields) + 1))
            => build'.pc = "failed"]_vars

\* C12's case: an accepted length-prefixed field in a --bolt run, and one in
\* an option variant or a TLV record is likewise reachable.
C12_Witness ==
    /\ build.pc = "read" /\ build.bolt
    /\ \E m \in AllMessages(build.g) : \E j \in 2..Len(m.fields) :
          /\ m.fields[j].lenvar # NoneStr
          /\ m.fields[j - 1].is_len_var /\ m.fields[j - 1].fieldtype = "u16"

\* C13 (SpecBuild): every field the builder accepted, in either mode, has at
\* most one of the three size roles: fixed array (more than one element),
\* length-prefixed (a length field set), optional; an optional field is never
\* an array.
C13_OneSizeRole ==
    build.pc \in {"read", "generated"} =>
        \A m \in AllMessages(build.g) : \A j \in 1..Len(m.fields) :
            /\ ~(m.fields[j].num_elems > 1 /\ m.fields[j].lenvar # NoneStr)
            /\ ~(m.fields[j].num_elems > 1 /\ m.fields[j].optional)
            /\ ~(m.fields[j].lenvar # NoneStr /\ m.fields[j].optional)

\* C14 (SpecBuild): no run, of any artifact flavor, prints its artifact while
\* a TLV record with an optional field or a nested TLV field is loaded.
C14_TlvRecordRejected ==
    build.pc = "generated" =>
        \A m \in AllMessages(build.g) :
            m.is_tlv => \A j \in 1..Len(m.fields) :
                            ~m.fields[j].optional /\ ~m.fields[j].is_tlv

\* C15 (SpecBuild): after any sequence of addField calls, has_variable_fields
\* of a message is true exactly when one of its fields is length-prefixed,
\* optional, or of a type of varlen_structs; and the flag of a message never
\* goes from true back to false.
C15_VariableFlag ==
    /\ [](build.pc \in {"read", "generated"} =>
            \A m \in AllMessages(build.g) :
                m.has_variable_fields <=>
                    \E j \in 1..Len(m.fields) :
                        \/ m.fields[j].lenvar # NoneStr
                        \/ m.fields[j].optional
                        \/ base(m.fields[j].fieldtype) \in varlen_structs)
    /\ [][/\ \A i \in 1..Len(build.g.messages) :
               build.g.messages[i].has_variable_fields
                   => build'.g.messages[i].has_variable_fields
          /\ \A i \in 1..Len(build.g.messages_with_option) :
               build.g.messages_with_option[i].has_variable_fields
                   => build'.g.messages_with_option[i].has_variable_fields]_vars

\* C15's case: a message whose flag was set by a field of a varlen_structs
\* type alone, and that took a plain field afterwards.
C15_Witness ==
    /\ build.pc = "read"
    /\ \E i \in 1..Len(build.g.messages) :
          LET m == build.g.messages[i]
          IN  /\ m.has_variable_fields /\ Len(m.fields) >= 2
              /\ \A j \in 1..Len(m.fields) :
                    m.fields[j].lenvar = NoneStr /\ ~m.fields[j].optional
              /\ base(m.fields[Len(m.fields)].fieldtype) \notin varlen_structs

\* C16 (SpecBuild): for any sequence of field records, TLV fields met while a
\* container is being loaded included, each container name is loaded from
\* its file at most once.
C16_LoadedOnce ==
    \A i, j \in 1..Len(build.g.loads) :
        build.g.loads[i] = build.g.loads[j] => i = j

\* C16 for the runs that no exception ended.
C16_LoadedOnceAccepted ==
    build.pc \in {"read", "generated"} =>
        \A i, j \in 1..Len(build.g.loads) :
            build.g.loads[i] = build.g.loads[j] => i = j

\* C17 (SpecBuild): in the full definition artifact of an accepted schema no
\* two entry points have one name: the decode names, and the encode names,
\* of the top-level messages, the option variants and the TLV records are
\* pairwise distinct.
C17_DistinctEntryPoints ==
    build.pc \in {"read", "generated"} =>
        \A e1, e2 \in entry_points(build.g) :
            e1.for # e2.for => (e1.fromwire # e2.fromwire /\ e1.towire # e2.towire)

\* C19 (SpecBuild): after any sequence of message-start records no two
\* top-level messages have one numeric discriminant, and no two records of
\* one TLV container have one numeric tag.
C19_DistinctDiscriminants ==
    build.pc \in {"read", "generated"} =>
        /\ \A i, j \in 1..Len(build.g.messages) :
              int(build.g.messages[i].enum.value) = int(build.g.messages[j].enum.value)
                  => i = j
        /\ \A tn \in DOMAIN build.g.tlv_fields :
              \A i, j \in 1..Len(build.g.tlv_fields[tn]) :
                  int(build.g.tlv_fields[tn][i].enum.value)
                      = int(build.g.tlv_fields[tn][j].enum.value) => i = j

\* The fields of the message a field record is for, as the globals g2 stand
\* after the record was read; g is the globals before it.
TargetFieldsAfter(g, g2, parts) ==
    LET k == FindTarget(g.messages, g.messages_with_option, parts)[2]
    IN  IF Len(parts) = 4 THEN g2.messages[k].fields
        ELSE g2.messages_with_option[k].fields

\* C18 (SpecBuild): in --bolt mode the width of the guessed type, the divisor,
\* is never zero; a field record whose byte count is not a multiple of that
\* width ends the run with an error and adds no field to its message; and
\* the field of any other record gets byte count / width elements exactly.
C18_ByteCountDivides ==
    /\ [](/\ \A e \in typemap : typesize(e[3]) > 0
          /\ \A i \in 1..Len(partialtypemap) : typesize(partialtypemap[i][2]) > 0
          /\ \A n \in DOMAIN sizetypemap : typesize(sizetypemap[n]) > 0)
    /\ [][\A parts \in Vocab[build.vocab].records :
         (/\ build.bolt /\ build.pc = "read"
          /\ build'.n = build.n + 1 /\ build'.parts = parts
          /\ Len(parts) \in {4, 5}
          /\ RecordTarget(build.g, parts).found
          /\ ~ParseSize(TRUE, parts[4], build.g.prevfield).bad
          /\ IsInt(ParseSize(TRUE, parts[4], build.g.prevfield).size)
          /\ guess_type(RecordTarget(build.g, parts).m.name, FieldName(parts[3]),
                        int(ParseSize(TRUE, parts[4], build.g.prevfield).size)) # ErrStr)
         => LET m     == RecordTarget(build.g, parts).m
                bytes == int(ParseSize(TRUE, parts[4], build.g.prevfield).size)
                width == typesize(guess_type(m.name, FieldName(parts[3]), bytes))
                after == TargetFieldsAfter(build.g, build'.g, parts)
            IN  /\ width > 0
                /\ bytes % width # 0 => (build'.pc = "failed" /\ after = m.fields)
                /\ (bytes % width = 0 /\ build'.pc = "read")
                      => /\ Len(after) = Len(m.fields) + 1
                         /\ after[Len(after)].num_elems * width = bytes
                         /\ after[Len(after)].fieldtype
                               = guess_type(m.name, FieldName(parts[3]), bytes)]_vars

\* C18's case: a --bolt run ended by a byte count that the width of the
\* guessed type does not divide (33 bytes of a 32-byte struct channel_id).
C18_Witness ==
    /\ build.pc = "failed" /\ build.bolt /\ Len(build.parts) = 4
    /\ IsInt(build.parts[4])
    /\ guess_type("a", build.parts[3], int(build.parts[4])) # ErrStr
    /\ int(build.parts[4]) % typesize(guess_type("a", build.parts[3],
                                                   int(build.parts[4]))) # 0
    /\ Len(build.g.messages) = 1 /\ build.g.messages[1].name = "a"

\* Whether a step reads the field record parts, an arraysize record
\* (count*type, not optional) of a message that exists.
ReadsArraySize(parts) ==
    /\ build.pc = "read" /\ build'.n = build.n + 1 /\ build'.parts = parts
    /\ Len(parts) \in {4, 5}
    /\ RecordTarget(build.g, parts).found
    /\ ~startswith(parts[4], "?") /\ StarAt(parts[4]) # {}

C21_LoopTerminates ==
    /\ [](tlv.plen >= 0)
    /\ [][(pc = "tlv_loop" /\ tlv.cursor # NULLP /\ tlv.plen # 0)
             => \/ tlv'.plen < tlv.plen
                \/ tlv'.cursor = NULLP
                \/ pc' = "tlv_exit"]_vars
    /\ [][(pc = "tlv_loop" /\ tlv.cursor # NULLP /\ tlv.plen = 0)
             => pc' = "tlv_exit" /\ tlv'.result /\ tlv'.log = tlv.log]_vars
    /\ [][(pc = "tlv_loop" /\ tlv.cursor = NULLP)
             => pc' = "tlv_exit" /\ ~tlv'.result /\ tlv'.log = tlv.log]_vars
    /\ []((pc = "tlv_exit" /\ tlv.result) => (tlv.plen = 0 /\ tlv.cursor # NULLP))
    /\ (pc = "tlv_loop") ~> (pc = "tlv_exit")

\* C21's case: a container decode whose loop ran two turns or more and ended
\* with success, the remaining length at zero.
C21_Witness ==
    /\ pc = "tlv_exit" /\ tlv.result
    /\ Len(tlv.log) >= 2
    /\ tlv.plen = 0 /\ tlv.cursor # NULLP

\* The TLV records of the containers loaded.
TlvRecords(g) ==
    UNION {{g.tlv_fields[tn][i] : i \in 1..Len(g.tlv_fields[tn])} :
              tn \in DOMAIN g.tlv_fields}

\* C22 (SpecBuild): for every message, option variant and TLV record built,
\* the decode printed for it declares the allocation-context parameter ctx
\* exactly when its has_variable_fields flag is set, and every step printed
\* in its body that hands ctx on (tal_arr of a length-prefixed array, tal of
\* an optional value, the decode of an externally-allocated struct, the call
\* of a container decode) is in a function that declares ctx; the container
\* decode hands ctx to a record decode exactly when that decode declares it.
C22_AllocationContext ==
    /\ \A m \in AllMessages(build.g) :
          /\ ctx_arg(m) <=> m.has_variable_fields
          /\ "ctx" \in print_fromwire_ctx(m) => ctx_arg(m)
    /\ \A r \in TlvRecords(build.g) : case_ctx_arg(r) <=> ctx_arg(r)

\* C22's case: a definition artifact was generated for a message whose decode
\* hands ctx on, for a TLV record whose decode allocates off ctx, and for a
\* TLV record whose decode declares no ctx.
C22_Witness ==
    /\ build.pc = "generated" /\ ~build.header /\ ~build.printwire
    /\ \E m \in AllMessages(build.g) : ~m.is_tlv /\ "ctx" \in print_fromwire_ctx(m)
    /\ \E r \in TlvRecords(build.g) : r.is_tlv /\ "ctx" \in print_fromwire_ctx(r)
    /\ \E r \in TlvRecords(build.g) : ~ctx_arg(r)

(***************************************************************************)
(* The claims about option variants (SpecBuild).                           *)
(***************************************************************************)
\* Field f is field f0 but for the marks checkLenField sets.
SameButMarks(f, f0) ==
    [f EXCEPT !.is_len_var = f0.is_len_var, !.lenvar_for = f0.lenvar_for] = f0

\* The field list after is the list before, marks apart, with the field of
\* record parts added at its end.
ExtendsByRecord(after, before, parts) ==
    /\ Len(after) = Len(before) + 1
    /\ after[Len(after)].name = FieldName(parts[3])
    /\ \A i \in 1..Len(before) : SameButMarks(after[i], before[i])

\* What an accepted record of five parts does to the globals g, leaving g2,
\* when its variant existed before or not: the base messages stay as they
\* are; a variant that did not exist is added after the others as the base
\* message's fields of that moment under the variant's name, with the
\* record's field; one that existed is the only variant to change, by the
\* record's field.
VariantStepOk(g, g2, parts, existed) ==
    LET b        == find_message(g.messages, parts[1])
        fullname == parts[1] \o "_" \o replace_dash(parts[5])
        old      == g.messages_with_option
        new      == g2.messages_with_option
    IN  /\ g2.messages = g.messages
        /\ IF ~existed
           THEN /\ Len(new) = Len(old) + 1
                /\ \A i \in 1..Len(old) : new[i] = old[i]
                /\ new[Len(new)].name = fullname
                /\ ExtendsByRecord(new[Len(new)].fields, g.messages[b].fields, parts)
           ELSE /\ Len(new) = Len(old)
                /\ \E k \in 1..Len(old) :
                      /\ old[k].name = fullname
                      /\ ExtendsByRecord(new[k].fields, old[k].fields, parts)
                      /\ \A i \in (1..Len(old)) \ {k} : new[i] = old[i]

\* The step of the run that reads record parts.
ReadsRecord(parts) ==
    build.pc = "read" /\ build'.n = build.n + 1 /\ build'.parts = parts

\* C23 as stated (SpecBuild): a record of five parts naming an unknown base
\* message ends the run with an error; an accepted one creates the variant
\* as a copy of the base message's fields of that moment when it is the first
\* to name its (message, option) pair, and changes that variant alone when
\* it is not; the base messages (field lists, length marks, flags) stay as
\* they are; and no other record changes a variant, so fields added to the
\* base later do not appear in it.
C23_VariantFrame ==
    [][\A parts \in Vocab[build.vocab].records :
          ReadsRecord(parts)
          => /\ (Len(parts) = 5 /\ find_message(build.g.messages, parts[1]) = 0)
                   => build'.pc = "failed"
             /\ (Len(parts) = 5 /\ build'.pc = "read")
                   => VariantStepOk(build.g, build'.g, parts,
                                    <<parts[1], replace_dash(parts[5])>> \in build.named)
             /\ (Len(parts) \in {2, 4} /\ build'.pc = "read")
                   => build'.g.messages_with_option = build.g.messages_with_option]_vars

\* C23 with a variant known by its full name (SpecBuild): the same, the
\* variant of a record being the first of messages_with_option called
\* <message>_<option>, whichever (message, option) pair it was created for.
C23_VariantFrameByName ==
    [][\A parts \in Vocab[build.vocab].records :
          ReadsRecord(parts)
          => /\ (Len(parts) = 5 /\ find_message(build.g.messages, parts[1]) = 0)
                   => build'.pc = "failed"
             /\ (Len(parts) = 5 /\ build'.pc = "read")
                   => VariantStepOk(build.g, build'.g, parts,
                         find_message(build.g.messages_with_option,
                                      parts[1] \o "_" \o replace_dash(parts[5])) # 0)
             /\ (Len(parts) \in {2, 4} /\ build'.pc = "read")
                   => build'.g.messages_with_option = build.g.messages_with_option]_vars

====
